---- MODULE Spec2Model ----
(***************************************************************************)
(* Verification model of the overwatch object-detection tracking core:     *)
(*   - TrackingIDService      (src/src/services/tracking_id.py)            *)
(*   - C4ISRTrackingState     (src/detect_yoloe_c4isr.py)                  *)
(*   - TrackingState and the frame loop of main (src/detect_yoloe.py)      *)
(*   - the publish functions, cleanup and signal_handler of both scripts,  *)
(*     and the session of main (src/detect_yoloe_c4isr.py)                 *)
(* Confidences are exact rationals in units of 1/100 (0.6 is 60); the      *)
(* running mean is kept as a reduced fraction, so floating-point rounding  *)
(* is abstracted away.  Timestamps and bounding boxes are opaque tokens.   *)
(***************************************************************************)
EXTENDS Integers, Sequences, FiniteSets, TLC

\* ---------------------------------------------------------------- bounds
\* the CUID generator is called at most MaxCuids times
MaxCuids == 4
\* get_or_create_cuid is called at most MaxCallsPerKey times per key
MaxCallsPerKey == 2
\* cleanup_stale_ids is called at most MaxCleanups times
MaxCleanups == 1

\* model_type tags and native ids handed to the reconciler
ModelTypes == {"yoloe", "rtdetr"}
NativeIds == {7, 8}
NoKey == <<"none", 0>>

VARIABLES
    \* TrackingIDService
    id_mapping,          \* self.id_mapping: (model_type, native_id) -> CUID
    cuid_count,          \* number of values self.cuid_generator has produced
    \* observation of the reconciler calls made so far
    last_op,             \* the last operation: [op, key, arg, ret]
    first_cuid,          \* key -> CUID returned by the first call for key (0: none)
    calls,               \* key -> number of get_or_create_cuid calls
    cleanups,            \* number of cleanup_stale_ids calls
    \* C4ISRTrackingState / TrackingState
    tracked_objects,         \* self.tracked_objects: track_id -> record
    total_unique_objects,    \* self.total_unique_objects
    total_frames_processed,  \* self.total_frames_processed
    active_track_ids,        \* self.active_track_ids
    threat_alerts,           \* self.threat_alerts
    \* observation of the store calls made so far
    clock,               \* datetime.now(): the next timestamp
    inputs,              \* track_id -> the arguments of its update_object calls, in order
    last_call,           \* the last store operation and its arguments / result
    \* frame loop of main
    pc,                  \* position in the loop body
    frame_count,         \* frame_count
    frame_timestamp,     \* frame_timestamp
    pending,             \* detections of the frame not yet processed
    current_track_ids,   \* current_track_ids
    total_kv_updates,    \* total_kv_updates
    \* event bus, KV store and teardown
    args_min_frames,     \* args.min_frames
    js,                  \* js: a JetStream context is there (not None)
    kv,                  \* kv: a KV store is there (not None)
    published,           \* the publish and KV write attempts made so far, in order
    cleanup_task,        \* the task the signal handler creates for cleanup()
    interrupted_at,      \* where the interrupt signal found the frame loop
    \* threat table of src/config/threats.py
    ALL_CLASSES,             \* ALL_CLASSES: the class list, in order
    CLASS_TO_THREAT_LEVEL,   \* CLASS_TO_THREAT_LEVEL: class -> threat level
    last_threat,             \* the last call on the table and what it returned
    \* threads inside get_or_create_cuid
    thread_pc,           \* thread -> position in get_or_create_cuid
    thread_key,          \* thread -> key (local)
    thread_value,        \* thread -> the value self.cuid_generator() gave it (0: none)
    thread_ret,          \* thread -> the CUID its call returned (0: not yet)
    \* process_frame of a detection service
    self_model_type,     \* self.model_type
    next_idx,            \* idx: what enumerate gives the next raw detection
    detections,          \* detections: the list process_frame builds
    returned,            \* what the last process_frame call gave its caller
    issued,              \* the CUIDs get_or_create_cuid has returned, in order
    \* H264Encoder
    output_queue,        \* self._output_queue
    reader_pc,           \* position of the reader thread in _read_output
    chunk,               \* chunk: the chunk the reader thread holds (0: none)
    chunks_read,         \* number of chunks read from the FFmpeg stdout
    encode_pc,           \* position of the calling thread in encode_frame
    chunks,              \* chunks: what encode_frame has collected
    discarded            \* chunks the reader let go of without enqueuing them

reconVars == <<id_mapping, cuid_count>>
reconObs == <<last_op, first_cuid, calls, cleanups>>
storeVars == <<tracked_objects, total_unique_objects, total_frames_processed,
               active_track_ids, threat_alerts>>
storeObs == <<clock, inputs, last_call>>
loopVars == <<pc, frame_count, frame_timestamp, pending, current_track_ids, total_kv_updates>>
commVars == <<args_min_frames, js, kv, published, cleanup_task, interrupted_at>>
threatVars == <<ALL_CLASSES, CLASS_TO_THREAT_LEVEL, last_threat>>
threadVars == <<thread_pc, thread_key, thread_value, thread_ret>>
detectorVars == <<self_model_type, next_idx, detections, returned, issued>>
encoderVars == <<output_queue, reader_pc, chunk, chunks_read, encode_pc, chunks, discarded>>
extVars == <<threatVars, threadVars, detectorVars, encoderVars>>
vars == <<id_mapping, cuid_count, last_op, first_cuid, calls, cleanups,
          tracked_objects, total_unique_objects, total_frames_processed,
          active_track_ids, threat_alerts, clock, inputs, last_call,
          pc, frame_count, frame_timestamp, pending, current_track_ids, total_kv_updates,
          args_min_frames, js, kv, published, cleanup_task, interrupted_at,
          ALL_CLASSES, CLASS_TO_THREAT_LEVEL, last_threat,
          thread_pc, thread_key, thread_value, thread_ret,
          self_model_type, next_idx, detections, returned, issued,
          output_queue, reader_pc, chunk, chunks_read, encode_pc, chunks, discarded>>

Keys == ModelTypes \X NativeIds

\* no interrupt signal has arrived
NotInterrupted == [pc |-> "none", frame |-> 0, updated |-> {}, pending |-> << >>]

\* no call on the threat table has been made
NoThreatCall == [op |-> "init", class_name |-> "", threat_level |-> "", confidence |-> 0,
                 indicators |-> << >>, detector_indicators |-> << >>]

\* process_frame has not returned
NothingReturned == [outcome |-> "none", detections |-> << >>]

\* ------------------------------------------------------- TrackingIDService

\* key = (model_type, native_id)
MakeKey(model_type, native_id) == <<model_type, native_id>>

\* a generator that numbers a new entry by the size of the map
cuid_generator_from_size == Cardinality(DOMAIN id_mapping) + 1

\* self.cuid_generator(): a value never returned before (CUIDs are
\* collision resistant); the n-th call returns token n.
cuid_generator == cuid_count + 1

\* the mapping with one entry added or replaced
Put(map, key, value) ==
    [k \in DOMAIN map \cup {key} |-> IF k = key THEN value ELSE map[k]]

\* get_or_create_cuid without the membership test: a new CUID on every call
get_or_create_cuid_always_new(native_id, model_type) ==
    Put(id_mapping, MakeKey(model_type, native_id), cuid_generator)

\* the mapping after get_or_create_cuid(native_id, model_type)
get_or_create_cuid_map(native_id, model_type) ==
    LET key == MakeKey(model_type, native_id)
    IN  IF key \notin DOMAIN id_mapping
          THEN Put(id_mapping, key, cuid_generator)
          ELSE id_mapping

\* cleanup_stale_ids with the test inverted: it drops the active entries
cleanup_stale_ids_inverted(active_ids) ==
    [key \in {k \in DOMAIN id_mapping : id_mapping[k] \notin active_ids} |-> id_mapping[key]]

\* the mapping after cleanup_stale_ids(active_ids)
cleanup_stale_ids_map(active_ids) ==
    LET stale_keys == {key \in DOMAIN id_mapping : id_mapping[key] \notin active_ids}
    IN  [key \in DOMAIN id_mapping \ stale_keys |-> id_mapping[key]]

InitRecon ==
    /\ id_mapping = << >>
    /\ cuid_count = 0

InitReconObs ==
    /\ last_op = [op |-> "init", key |-> NoKey, arg |-> {}, ret |-> 0]
    /\ first_cuid = [k \in Keys |-> 0]
    /\ calls = [k \in Keys |-> 0]
    /\ cleanups = 0

\* one call get_or_create_cuid(native_id, model_type), its return value observed
GetOrCreateCuid(native_id, model_type) ==
    LET key == MakeKey(model_type, native_id)
        generated == key \notin DOMAIN id_mapping
    IN  /\ calls[MakeKey(model_type, native_id)] < MaxCallsPerKey
        /\ generated => cuid_count < MaxCuids
        /\ id_mapping' = get_or_create_cuid_map(native_id, model_type)
        /\ cuid_count' = IF generated THEN cuid_count + 1 ELSE cuid_count
        /\ last_op' = [op |-> "get", key |-> <<model_type, native_id>>, arg |-> {},
                       ret |-> id_mapping'[key]]
        /\ first_cuid' = IF first_cuid[<<model_type, native_id>>] = 0
                           THEN [first_cuid EXCEPT ![<<model_type, native_id>>] = id_mapping'[key]]
                           ELSE first_cuid
        /\ calls' = [calls EXCEPT ![<<model_type, native_id>>] = @ + 1]
        /\ UNCHANGED <<extVars, cleanups, storeVars, storeObs, loopVars, commVars>>

\* one call cleanup_stale_ids(active_ids)
CleanupStaleIds(active_ids) ==
    /\ cleanups < MaxCleanups
    /\ id_mapping' = cleanup_stale_ids_map(active_ids)
    /\ last_op' = [op |-> "cleanup", key |-> NoKey, arg |-> active_ids, ret |-> 0]
    /\ cleanups' = cleanups + 1
    /\ calls' = [k \in Keys |-> 0]      \* calls are counted since the last cleanup
    /\ UNCHANGED <<extVars, cuid_count, first_cuid, storeVars, storeObs, loopVars, commVars>>

ReconGet == \E m \in ModelTypes, n \in NativeIds : GetOrCreateCuid(n, m)
ReconCleanup == \E S \in SUBSET (1..cuid_count) : CleanupStaleIds(S)

\* -------------------------------------------------- threat classification

\* THREAT_CATEGORIES[...]["classes"]
HIGH_THREAT_CLASSES == {"weapon", "knife", "gun", "rifle", "pistol", "explosive", "bomb"}
MEDIUM_THREAT_CLASSES == {"suspicious package", "unattended bag", "backpack", "suitcase",
                          "unauthorized vehicle", "truck", "van"}
LOW_THREAT_CLASSES == {"person", "car", "bicycle", "motorcycle", "dog"}
NORMAL_CLASSES == {"traffic light", "stop sign", "bench", "bird", "cat"}

\* CLASS_TO_THREAT_LEVEL.get(class_name, "NORMAL"); the table is filled
\* category by category, a later category overwriting an earlier one
get_threat_level(class_name) ==
    IF class_name \in NORMAL_CLASSES THEN "NORMAL"
    ELSE IF class_name \in LOW_THREAT_CLASSES THEN "LOW_THREAT"
    ELSE IF class_name \in MEDIUM_THREAT_CLASSES THEN "MEDIUM_THREAT"
    ELSE IF class_name \in HIGH_THREAT_CLASSES THEN "HIGH_THREAT"
    ELSE "NORMAL"

\* ------------------------------------------------------- arithmetic helpers

RECURSIVE Gcd(_, _)
Gcd(a, b) == IF b = 0 THEN a ELSE Gcd(b, a % b)

\* the quotient n / d (d > 0) as a reduced fraction <<numerator, denominator>>
Ratio(n, d) == LET g == Gcd(n, d) IN <<n \div g, d \div g>>

Max(a, b) == IF a >= b THEN a ELSE b
Min(a, b) == IF a <= b THEN a ELSE b

\* the Python slice s[-n:] for n > 0
LastN(s, n) == IF Len(s) > n THEN SubSeq(s, Len(s) - n + 1, Len(s)) ELSE s

\* the Python slice s[:n]
FirstN(s, n) == IF Len(s) > n THEN SubSeq(s, 1, n) ELSE s

RECURSIVE SumConfidence(_)
SumConfidence(s) == IF s = << >> THEN 0 ELSE s[1].confidence + SumConfidence(Tail(s))

\* ------------------------------------------------------ C4ISRTrackingState

\* capacity of bbox_history
BBOX_HISTORY_LIMIT == 30

\* a trim that keeps the oldest entries instead of the newest
trim_bbox_history_oldest(bbox_history) ==
    IF Len(bbox_history) > BBOX_HISTORY_LIMIT
      THEN FirstN(bbox_history, BBOX_HISTORY_LIMIT)
      ELSE bbox_history

\* if len(obj["bbox_history"]) > 30: obj["bbox_history"] = obj["bbox_history"][-30:]
trim_bbox_history(bbox_history) ==
    IF Len(bbox_history) > BBOX_HISTORY_LIMIT
      THEN LastN(bbox_history, BBOX_HISTORY_LIMIT)
      ELSE bbox_history

\* _calculate_suspicious_indicators: three independent tests, in order
calculate_suspicious_indicators(label, confidence, threat_level) ==
    (IF threat_level = "HIGH_THREAT" /\ confidence > 70
       THEN <<"high_confidence_weapon_detection">> ELSE << >>)
    \o (IF threat_level = "MEDIUM_THREAT" /\ confidence > 50
       THEN <<"suspicious_object_detected">> ELSE << >>)
    \o (IF threat_level = "HIGH_THREAT" /\ confidence < 50
       THEN <<"uncertain_threat_requires_validation">> ELSE << >>)

\* the record created for a track seen for the first time
new_object(track_id, label, confidence, bbox, ts, threat_level) ==
    [track_id |-> track_id,
     label |-> label,
     threat_level |-> threat_level,
     first_seen |-> ts,
     last_seen |-> ts,
     frame_count |-> 1,
     total_confidence |-> confidence,
     avg_confidence |-> Ratio(confidence, 1),
     max_confidence |-> confidence,
     bbox_history |-> <<bbox>>,
     is_active |-> TRUE,
     suspicious_indicators |-> calculate_suspicious_indicators(label, confidence, threat_level)]

\* an update that also restarts first_seen
updated_object_first_seen_reset(obj, label, confidence, bbox, ts, threat_level) ==
    [obj EXCEPT
       !.first_seen = ts,
       !.last_seen = ts,
       !.frame_count = obj.frame_count + 1,
       !.total_confidence = obj.total_confidence + confidence,
       !.avg_confidence = Ratio(obj.total_confidence + confidence, obj.frame_count + 1),
       !.max_confidence = Max(obj.max_confidence, confidence),
       !.bbox_history = trim_bbox_history(Append(obj.bbox_history, bbox)),
       !.is_active = TRUE,
       !.suspicious_indicators = calculate_suspicious_indicators(label, confidence, threat_level)]

\* an update that takes the mean before counting the frame
updated_object_stale_mean(obj, label, confidence, bbox, ts, threat_level) ==
    [obj EXCEPT
       !.last_seen = ts,
       !.frame_count = obj.frame_count + 1,
       !.total_confidence = obj.total_confidence + confidence,
       !.avg_confidence = Ratio(obj.total_confidence + confidence, obj.frame_count),
       !.max_confidence = Max(obj.max_confidence, confidence),
       !.bbox_history = trim_bbox_history(Append(obj.bbox_history, bbox)),
       !.is_active = TRUE,
       !.suspicious_indicators = calculate_suspicious_indicators(label, confidence, threat_level)]

\* the record of a known track after one more sighting; label, threat_level
\* and first_seen are not assigned
updated_object(obj, label, confidence, bbox, ts, threat_level) ==
    [obj EXCEPT
       !.last_seen = ts,
       !.frame_count = obj.frame_count + 1,
       !.total_confidence = obj.total_confidence + confidence,
       !.avg_confidence = Ratio(obj.total_confidence + confidence, obj.frame_count + 1),
       !.max_confidence = Max(obj.max_confidence, confidence),
       !.bbox_history = trim_bbox_history(Append(obj.bbox_history, bbox)),
       !.is_active = TRUE,
       !.suspicious_indicators = calculate_suspicious_indicators(label, confidence, threat_level)]

\* the alert appended for a new HIGH_THREAT / MEDIUM_THREAT object
new_alert(track_id, label, confidence, bbox, ts, threat_level) ==
    [alert_id |-> <<track_id, ts>>,
     track_id |-> track_id,
     label |-> label,
     threat_level |-> threat_level,
     confidence |-> confidence,
     first_detected |-> ts,
     bbox |-> bbox,
     status |-> "active"]

\* an alert on every sighting of a HIGH_THREAT / MEDIUM_THREAT label
alerts_after_update_every_sighting(track_id, label, confidence, bbox, ts, threat_level) ==
    IF threat_level \in {"HIGH_THREAT", "MEDIUM_THREAT"}
      THEN Append(threat_alerts,
                  new_alert(track_id, label, confidence, bbox, ts, threat_level))
      ELSE threat_alerts

\* self.threat_alerts after update_object
alerts_after_update(track_id, label, confidence, bbox, ts, threat_level) ==
    IF track_id \notin DOMAIN tracked_objects
         /\ threat_level \in {"HIGH_THREAT", "MEDIUM_THREAT"}
      THEN Append(threat_alerts,
                  new_alert(track_id, label, confidence, bbox, ts, threat_level))
      ELSE threat_alerts

\* update_object that leaves the active-ID set alone
update_object_not_activated(track_id, label, confidence, bbox, ts, threat_level) ==
    /\ tracked_objects' =
         IF track_id \notin DOMAIN tracked_objects
           THEN Put(tracked_objects, track_id,
                    new_object(track_id, label, confidence, bbox, ts, threat_level))
           ELSE Put(tracked_objects, track_id,
                    updated_object(tracked_objects[track_id], label, confidence, bbox,
                                   ts, threat_level))
    /\ total_unique_objects' =
         IF track_id \notin DOMAIN tracked_objects
           THEN total_unique_objects + 1 ELSE total_unique_objects
    /\ threat_alerts' =
         alerts_after_update(track_id, label, confidence, bbox, ts, threat_level)
    /\ UNCHANGED <<active_track_ids, total_frames_processed>>

\* C4ISRTrackingState.update_object
update_object(track_id, label, confidence, bbox, ts, threat_level) ==
    /\ tracked_objects' =
         IF track_id \notin DOMAIN tracked_objects
           THEN Put(tracked_objects, track_id,
                    new_object(track_id, label, confidence, bbox, ts, threat_level))
           ELSE Put(tracked_objects, track_id,
                    updated_object(tracked_objects[track_id], label, confidence, bbox,
                                   ts, threat_level))
    /\ total_unique_objects' =
         IF track_id \notin DOMAIN tracked_objects
           THEN total_unique_objects + 1 ELSE total_unique_objects
    /\ threat_alerts' =
         alerts_after_update(track_id, label, confidence, bbox, ts, threat_level)
    /\ active_track_ids' = active_track_ids \cup {track_id}
    /\ UNCHANGED total_frames_processed

\* a mark_inactive_objects that drops the records of absent tracks
mark_inactive_objects_delete(current_ids) ==
    /\ tracked_objects' =
         [track_id \in DOMAIN tracked_objects \cap current_ids |-> tracked_objects[track_id]]
    /\ active_track_ids' =
         active_track_ids \ {track_id \in DOMAIN tracked_objects : track_id \notin current_ids}
    /\ UNCHANGED <<total_unique_objects, total_frames_processed, threat_alerts>>

\* a mark_inactive_objects that forgets the active-ID set
mark_inactive_objects_flag_only(current_ids) ==
    /\ tracked_objects' =
         [track_id \in DOMAIN tracked_objects |->
            IF track_id \notin current_ids
              THEN [tracked_objects[track_id] EXCEPT !.is_active = FALSE]
              ELSE tracked_objects[track_id]]
    /\ UNCHANGED <<active_track_ids, total_unique_objects, total_frames_processed, threat_alerts>>

\* a mark_inactive_objects that deactivates every track
mark_inactive_objects_all(current_ids) ==
    /\ tracked_objects' =
         [track_id \in DOMAIN tracked_objects |->
            [tracked_objects[track_id] EXCEPT !.is_active = FALSE]]
    /\ active_track_ids' = active_track_ids \ DOMAIN tracked_objects
    /\ UNCHANGED <<total_unique_objects, total_frames_processed, threat_alerts>>

\* mark_inactive_objects (the same in C4ISRTrackingState and TrackingState)
mark_inactive_objects(current_ids) ==
    /\ tracked_objects' =
         [track_id \in DOMAIN tracked_objects |->
            IF track_id \notin current_ids
              THEN [tracked_objects[track_id] EXCEPT !.is_active = FALSE]
              ELSE tracked_objects[track_id]]
    /\ active_track_ids' =
         active_track_ids \ {track_id \in DOMAIN tracked_objects : track_id \notin current_ids}
    /\ UNCHANGED <<total_unique_objects, total_frames_processed, threat_alerts>>

\* a persistence filter with a strict comparison
get_persistent_objects_strict(min_frames) ==
    [tid \in {t \in DOMAIN tracked_objects : tracked_objects[t].frame_count > min_frames}
       |-> tracked_objects[tid]]

\* get_persistent_objects (the same in C4ISRTrackingState and TrackingState)
get_persistent_objects(min_frames) ==
    [tid \in {t \in DOMAIN tracked_objects : tracked_objects[t].frame_count >= min_frames}
       |-> tracked_objects[tid]]

\* the sum of the counts of a distribution
RECURSIVE SumCounts(_)
SumCounts(counts) ==
    IF DOMAIN counts = {} THEN 0
    ELSE LET k == CHOOSE x \in DOMAIN counts : TRUE
         IN  counts[k] + SumCounts([x \in DOMAIN counts \ {k} |-> counts[x]])

\* a selection that takes every record, active or not
active_objects_all == DOMAIN tracked_objects

\* active_objects: the records with is_active set (by track ID)
active_objects == {t \in DOMAIN tracked_objects : tracked_objects[t].is_active}

\* label_counts: for each label of an active object, how many carry it
label_counts ==
    [l \in {tracked_objects[t].label : t \in active_objects} |->
       Cardinality({t \in active_objects : tracked_objects[t].label = l})]

\* threat_counts: for each threat level of an active object, how many carry it
threat_counts ==
    [v \in {tracked_objects[t].threat_level : t \in active_objects} |->
       Cardinality({t \in active_objects : tracked_objects[t].threat_level = v})]

\* active_threats: the active HIGH_THREAT / MEDIUM_THREAT objects
active_threats ==
    {t \in active_objects :
       tracked_objects[t].threat_level \in {"HIGH_THREAT", "MEDIUM_THREAT"}}

\* the capacity of the alert window of get_analytics
ALERT_WINDOW == 10

\* a window that keeps the oldest alerts
recent_alerts_oldest == FirstN(threat_alerts, ALERT_WINDOW)

\* self.threat_alerts[-10:]
recent_alerts == LastN(threat_alerts, ALERT_WINDOW)

\* C4ISRTrackingState.get_analytics
get_analytics ==
    [total_unique_objects |-> total_unique_objects,
     total_frames_processed |-> total_frames_processed,
     active_objects_count |-> Cardinality(active_objects),
     tracked_objects_count |-> Cardinality(DOMAIN tracked_objects),
     label_distribution |-> label_counts,
     threat_distribution |-> threat_counts,
     active_threat_count |-> Cardinality(active_threats),
     active_track_ids |-> active_track_ids,
     threat_alerts |-> recent_alerts]

\* ------------------------------------------- TrackingState (detect_yoloe.py)

\* the record created for a track seen for the first time
ts_new_object(track_id, label, confidence, bbox, ts) ==
    [track_id |-> track_id,
     label |-> label,
     first_seen |-> ts,
     last_seen |-> ts,
     frame_count |-> 1,
     total_confidence |-> confidence,
     avg_confidence |-> Ratio(confidence, 1),
     bbox_history |-> <<bbox>>,
     is_active |-> TRUE]

\* the record of a known track after one more sighting
ts_updated_object(obj, label, confidence, bbox, ts) ==
    [obj EXCEPT
       !.last_seen = ts,
       !.frame_count = obj.frame_count + 1,
       !.total_confidence = obj.total_confidence + confidence,
       !.avg_confidence = Ratio(obj.total_confidence + confidence, obj.frame_count + 1),
       !.bbox_history = trim_bbox_history(Append(obj.bbox_history, bbox)),
       !.is_active = TRUE]

\* TrackingState.update_object
ts_update_object(track_id, label, confidence, bbox, ts) ==
    /\ tracked_objects' =
         IF track_id \notin DOMAIN tracked_objects
           THEN Put(tracked_objects, track_id,
                    ts_new_object(track_id, label, confidence, bbox, ts))
           ELSE Put(tracked_objects, track_id,
                    ts_updated_object(tracked_objects[track_id], label, confidence, bbox, ts))
    /\ total_unique_objects' =
         IF track_id \notin DOMAIN tracked_objects
           THEN total_unique_objects + 1 ELSE total_unique_objects
    /\ active_track_ids' = active_track_ids \cup {track_id}
    /\ UNCHANGED <<total_frames_processed, threat_alerts>>

\* TrackingState.get_analytics
ts_get_analytics ==
    [total_unique_objects |-> total_unique_objects,
     total_frames_processed |-> total_frames_processed,
     active_objects_count |-> Cardinality(active_objects),
     tracked_objects_count |-> Cardinality(DOMAIN tracked_objects),
     label_distribution |-> label_counts,
     active_track_ids |-> active_track_ids]

InitStore ==
    /\ tracked_objects = << >>
    /\ total_unique_objects = 0
    /\ total_frames_processed = 0
    /\ active_track_ids = {}
    /\ threat_alerts = << >>

InitStoreObs ==
    /\ clock = 1
    /\ inputs = << >>
    /\ last_call = [op |-> "init", track_id |-> 0, ids |-> {}, min_frames |-> 0,
                    result |-> << >>]

\* no frame loop is running
InitNoLoop ==
    /\ pc = "none"
    /\ frame_count = 0
    /\ frame_timestamp = 0
    /\ pending = {}
    /\ current_track_ids = {}
    /\ total_kv_updates = 0
    /\ args_min_frames = 0
    /\ js = FALSE
    /\ kv = FALSE
    /\ published = << >>
    /\ cleanup_task = "none"
    /\ interrupted_at = NotInterrupted

\* the threat table is not in use
InitNoThreats ==
    /\ ALL_CLASSES = << >>
    /\ CLASS_TO_THREAT_LEVEL = << >>
    /\ last_threat = NoThreatCall

\* no thread is inside get_or_create_cuid
InitNoThreads ==
    /\ thread_pc = << >>
    /\ thread_key = << >>
    /\ thread_value = << >>
    /\ thread_ret = << >>

\* no detection service is running
InitNoDetector ==
    /\ self_model_type = "none"
    /\ next_idx = 0
    /\ detections = << >>
    /\ returned = NothingReturned
    /\ issued = << >>

\* no encoder is running
InitNoEncoder ==
    /\ output_queue = << >>
    /\ reader_pc = "none"
    /\ chunk = 0
    /\ chunks_read = 0
    /\ encode_pc = "none"
    /\ chunks = << >>
    /\ discarded = {}

\* the arguments of the update_object calls made for track_id so far
InputsOf(track_id) == IF track_id \in DOMAIN inputs THEN inputs[track_id] ELSE << >>

\* the record of one update_object call
Observe(track_id, label, confidence, bbox, ts, threat_level) ==
    /\ inputs' = Put(inputs, track_id,
                     Append(InputsOf(track_id),
                            [label |-> label, confidence |-> confidence, bbox |-> bbox,
                             ts |-> ts,
                             threat_level |-> threat_level]))
    /\ last_call' = [op |-> "update", track_id |-> track_id, ids |-> {}, min_frames |-> 0,
                     result |-> << >>]

\* one call update_object(...) at the time of the clock, the threat level
\* looked up from the label as the callers do
Update(track_id, label, confidence, bbox) ==
    /\ update_object(track_id, label, confidence, bbox, clock, get_threat_level(label))
    /\ Observe(track_id, label, confidence, bbox, clock, get_threat_level(label))
    /\ clock' = clock + 1

\* one call mark_inactive_objects(current_ids)
MarkInactive(current_ids) ==
    /\ mark_inactive_objects(current_ids)
    /\ last_call' = [op |-> "mark", track_id |-> 0, ids |-> current_ids, min_frames |-> 0,
                     result |-> << >>]
    /\ UNCHANGED <<clock, inputs>>

\* one call get_persistent_objects(min_frames), its result observed
QueryPersistent(min_frames) ==
    /\ last_call' = [op |-> "persistent", track_id |-> 0, ids |-> {},
                     min_frames |-> min_frames,
                     result |-> get_persistent_objects(min_frames)]
    /\ UNCHANGED <<storeVars, clock, inputs>>

\* one call get_analytics(), its result observed
QueryAnalytics ==
    /\ last_call' = [op |-> "analytics", track_id |-> 0, ids |-> {}, min_frames |-> 0,
                     result |-> get_analytics]
    /\ UNCHANGED <<storeVars, clock, inputs>>

\* ------------------------------------------------ event bus and KV store
\* Every js.publish / kv.put attempt is appended to `published` with its
\* outcome: "ok", "error" (the call raised; the caller's except clause
\* logs it) or "skipped" (the handle is None and the function returned
\* at once, having built nothing).

\* the outcomes of one attempt through a handle
PublishOutcomes(handle) == IF handle THEN {"ok", "error"} ELSE {"skipped"}

\* a publish whose error leaves the try block and ends the frame loop
after_publish_raising(outcome, next_pc) == IF outcome = "error" THEN "finally" ELSE next_pc

\* try: ... except Exception as e: print(...): whatever the outcome, the
\* caller goes on at its next statement
after_publish(outcome, next_pc) == next_pc

\* the persistence threshold written into the publish functions
PUBLISH_MIN_FRAMES == 3

\* a publisher that takes the threshold of the command line
persistent_objects_for_publish_configured == get_persistent_objects(args_min_frames)

\* persistent_objects = tracking_state.get_persistent_objects(min_frames=3)
persistent_objects_for_publish == get_persistent_objects(PUBLISH_MIN_FRAMES)

\* an alert level raised by any active HIGH_THREAT / MEDIUM_THREAT object
alert_level_any_threat(analytics) ==
    IF analytics.active_threat_count > 0 THEN "HIGH" ELSE "NORMAL"

\* "HIGH" if analytics["threat_distribution"].get("HIGH_THREAT", 0) > 0 else "NORMAL"
alert_level(analytics) ==
    IF /\ "HIGH_THREAT" \in DOMAIN analytics.threat_distribution
       /\ analytics.threat_distribution["HIGH_THREAT"] > 0
      THEN "HIGH" ELSE "NORMAL"

\* the bootsequence publish of setup_nats
bootsequence_event(outcome) == [kind |-> "bootsequence", outcome |-> outcome]

\* the detection event of one detection, obj_info read after update_object
detection_event(track_id, label, confidence, threat_level, ts, outcome) ==
    [kind |-> "detection", frame |-> frame_count, outcome |-> outcome,
     timestamp |-> ts, track_id |-> track_id, label |-> label,
     confidence |-> confidence, threat_level |-> threat_level,
     suspicious_indicators |-> tracked_objects[track_id].suspicious_indicators]

\* a publisher that sends a failed event once more
publish_detection_event_again(event) ==
    IF event.outcome = "error"
      THEN Append(Append(published, event), [event EXCEPT !.outcome = "ok"])
      ELSE Append(published, event)

\* publish_detection_event: one js.publish, no retry
publish_detection_event(event) == Append(published, event)

\* publish_threat_intelligence: nothing is built without a KV store
threat_intelligence(outcome) ==
    IF outcome = "skipped"
      THEN [kind |-> "threat_intelligence", frame |-> frame_count, outcome |-> outcome]
      ELSE [kind |-> "threat_intelligence", frame |-> frame_count, outcome |-> outcome,
            analytics |-> get_analytics,
            alert_level |-> alert_level(get_analytics),
            tracked_objects |-> persistent_objects_for_publish]

\* publish_tracking_state of detect_yoloe.py
tracking_state_snapshot(outcome) ==
    IF outcome = "skipped"
      THEN [kind |-> "tracking_state", frame |-> frame_count, outcome |-> outcome]
      ELSE [kind |-> "tracking_state", frame |-> frame_count, outcome |-> outcome,
            analytics |-> ts_get_analytics,
            tracked_objects |-> persistent_objects_for_publish]

\* the shutdown publish of cleanup(), by the coroutine that runs it
shutdown_event(by, outcome) == [kind |-> "shutdown", by |-> by, outcome |-> outcome]

\* nc.drain() and nc.close()
teardown_event(by) == [kind |-> "teardown", by |-> by]

\* the entries of the log of one kind
RECURSIVE EntriesOfKind(_, _)
EntriesOfKind(log, kind) ==
    IF log = << >> THEN << >>
    ELSE (IF log[1].kind = kind THEN <<log[1]>> ELSE << >>) \o EntriesOfKind(Tail(log), kind)

\* nats.connect, the JetStream context, the KV store (which may be
\* missing) and the bootsequence publish
setup_nats ==
    /\ js' = TRUE
    /\ kv' \in BOOLEAN
    /\ \E outcome \in PublishOutcomes(TRUE) :
         published' = Append(published, bootsequence_event(outcome))

\* --------------------------------------------- specification: reconciler

InitR == InitRecon /\ InitReconObs /\ InitStore /\ InitStoreObs /\ InitNoLoop
          /\ InitNoThreats /\ InitNoThreads /\ InitNoDetector /\ InitNoEncoder
NextR == ReconGet \/ ReconCleanup
SpecRecon == InitR /\ [][NextR]_vars

\* ------------------------------------------ specification: tracking store
\* Any sequence of update_object, mark_inactive_objects,
\* get_persistent_objects and get_analytics calls on one C4ISRTrackingState.

\* at most MaxUpdates calls of update_object
MaxUpdates == 3
\* thresholds 1..MaxMinFrames are queried
MaxMinFrames == 3

StoreTracks == {1, 2}
StoreLabels == {"person", "knife", "backpack"}
StoreConfs == {40, 90}
StoreBoxes == {"b0"}

StoreUpdate ==
    /\ clock <= MaxUpdates
    /\ \E t \in StoreTracks, l \in StoreLabels, c \in StoreConfs, b \in StoreBoxes :
         Update(t, l, c, b)
    /\ UNCHANGED <<extVars, reconVars, reconObs, loopVars, commVars>>

StoreMark ==
    /\ \E S \in SUBSET StoreTracks : MarkInactive(S)
    /\ UNCHANGED <<extVars, reconVars, reconObs, loopVars, commVars>>

StoreQuery ==
    /\ \E k \in 1..MaxMinFrames : QueryPersistent(k)
    /\ UNCHANGED <<extVars, reconVars, reconObs, loopVars, commVars>>

StoreAnalytics ==
    /\ QueryAnalytics
    /\ UNCHANGED <<extVars, reconVars, reconObs, loopVars, commVars>>

InitS == InitRecon /\ InitReconObs /\ InitStore /\ InitStoreObs /\ InitNoLoop
          /\ InitNoThreats /\ InitNoThreads /\ InitNoDetector /\ InitNoEncoder
NextS == StoreUpdate \/ StoreMark \/ StoreQuery \/ StoreAnalytics
SpecStore == InitS /\ [][NextS]_vars

\* ------------------------------------------------- reconciler properties

\* C1 (identity stability): while only get_or_create_cuid has been called on
\* the reconciler, every call returns the CUID that the first call for the
\* same (model_type, native_id) pair returned, whatever calls for other
\* pairs came in between.
C1_IdentityStability ==
    (cleanups = 0 /\ last_op.op = "get") => last_op.ret = first_cuid[last_op.key]

\* a repeated call for a pair, with a call for another pair after its first
C1_Witness ==
    /\ cleanups = 0
    /\ last_op.op = "get"
    /\ calls[last_op.key] >= 2
    /\ \E k2 \in DOMAIN id_mapping :
          k2 # last_op.key /\ id_mapping[k2] > first_cuid[last_op.key]

\* C2 (identity distinctness): in every reachable state the map
\* (model_type, native_id) -> CUID is injective, given a generator that
\* never repeats a value.
C2_MapInjective ==
    \A k1 \in DOMAIN id_mapping : \A k2 \in DOMAIN id_mapping :
        k1 # k2 => id_mapping[k1] # id_mapping[k2]

\* the same native id under two model types, and a pair created again
\* after a cleanup removed it
C2_Witness ==
    /\ <<"yoloe", 7>> \in DOMAIN id_mapping
    /\ <<"rtdetr", 7>> \in DOMAIN id_mapping
    /\ cleanups >= 1
    /\ \E k \in DOMAIN id_mapping : first_cuid[k] # id_mapping[k]

\* C10 (map transitions): get_or_create_cuid adds exactly one entry when its
\* key is absent and otherwise changes nothing, never removing or re-pointing
\* an entry; cleanup_stale_ids(active_ids) leaves exactly the previous map
\* restricted to the entries whose CUID is in active_ids, and it is the only
\* operation after which an entry is gone.
C10_GetStep ==
    last_op'.op = "get" =>
        /\ \A k \in DOMAIN id_mapping :
              k \in DOMAIN id_mapping' /\ id_mapping'[k] = id_mapping[k]
        /\ IF last_op'.key \in DOMAIN id_mapping
              THEN id_mapping' = id_mapping
              ELSE DOMAIN id_mapping' = DOMAIN id_mapping \cup {last_op'.key}

C10_CleanupStep ==
    last_op'.op = "cleanup" =>
        /\ DOMAIN id_mapping' =
              {k \in DOMAIN id_mapping : id_mapping[k] \in last_op'.arg}
        /\ \A k \in DOMAIN id_mapping' : id_mapping'[k] = id_mapping[k]

C10_OnlyCleanupRemoves ==
    (\E k \in DOMAIN id_mapping : k \notin DOMAIN id_mapping') => last_op'.op = "cleanup"

C10_MapTransitions ==
    [][C10_GetStep /\ C10_CleanupStep /\ C10_OnlyCleanupRemoves]_vars

\* a cleanup has removed one entry and kept another
C10_Witness ==
    /\ last_op.op = "cleanup"
    /\ id_mapping # << >>
    /\ \E k \in Keys : first_cuid[k] # 0 /\ k \notin DOMAIN id_mapping

\* ---------------------------------------- specification: the 4-frame scenario
\* update_object calls for the single track 7 with the labels and
\* confidences of the scenario, interleaved with mark_inactive_objects.

\* at most MaxScenarioUpdates calls of update_object
MaxScenarioUpdates == 4

ScenarioTracks == {7}
ScenarioTrack == CHOOSE t \in ScenarioTracks : TRUE
ScenarioLabels == {"person", "knife"}
ScenarioConfs == {60, 70, 80, 90}

ScenarioUpdate ==
    /\ clock <= MaxScenarioUpdates
    /\ \E l \in ScenarioLabels, c \in ScenarioConfs : Update(ScenarioTrack, l, c, "b0")
    /\ UNCHANGED <<extVars, reconVars, reconObs, loopVars, commVars>>

ScenarioMark ==
    /\ \E S \in SUBSET ScenarioTracks : MarkInactive(S)
    /\ UNCHANGED <<extVars, reconVars, reconObs, loopVars, commVars>>

NextScenario == ScenarioUpdate \/ ScenarioMark
SpecScenario == InitS /\ [][NextScenario]_vars

\* ---------------------------------------- specification: bounded history
\* Long runs of update_object on one C4ISRTrackingState; the bounding box of
\* the n-th call is the token n, so every box is told apart.

\* at most MaxHistoryUpdates calls of update_object
MaxHistoryUpdates == 41
\* at most MaxOtherUpdates of them for the second track
MaxOtherUpdates == 1

HistoryTracks == {1, 2}

HistoryUpdate ==
    /\ clock <= MaxHistoryUpdates
    /\ \E t \in HistoryTracks :
         /\ t = 2 => Len(InputsOf(2)) < MaxOtherUpdates
         /\ Update(t, "person", 90, clock)
    /\ UNCHANGED <<extVars, reconVars, reconObs, loopVars, commVars>>

HistoryMark ==
    /\ \E S \in SUBSET HistoryTracks : MarkInactive(S)
    /\ UNCHANGED <<extVars, reconVars, reconObs, loopVars, commVars>>

NextHistory == HistoryUpdate \/ HistoryMark
SpecHistory == InitS /\ [][NextHistory]_vars

\* --------------------------------------- specification: the alert window
\* Objects appear one after the other, each under a track ID of its own
\* (the number of the call), and get_analytics is called in between.

\* at most MaxAlertUpdates objects appear
MaxAlertUpdates == 12

AlertLabels == {"knife", "person"}

AlertsUpdate ==
    /\ clock <= MaxAlertUpdates
    /\ \E l \in AlertLabels : Update(clock, l, 90, "b0")
    /\ UNCHANGED <<extVars, reconVars, reconObs, loopVars, commVars>>

AlertsAnalytics ==
    /\ QueryAnalytics
    /\ UNCHANGED <<extVars, reconVars, reconObs, loopVars, commVars>>

NextAlerts == AlertsUpdate \/ AlertsAnalytics
SpecAlerts == InitS /\ [][NextAlerts]_vars

\* ------------------------------- specification: frame loop of detect_yoloe.py
\* main(): read a frame, update_object for every tracked box, then
\* mark_inactive_objects, the KV publish gate and the display, until the
\* stream ends or the quit key is pressed.

\* at most MaxFrames frames are read
MaxFrames == 3
\* --min-frames, default 3
MIN_FRAMES == 3

LoopTracks == {1, 2}
LoopLabels == {"person", "car"}
LoopConfs == {90}

\* ret, frame = cap.read() succeeds; model.track returns boxes with distinct
\* tracker IDs
ReadFrame ==
    /\ pc = "read"
    /\ frame_count < MaxFrames
    /\ \E boxes \in SUBSET LoopTracks : pending' = boxes
    /\ frame_timestamp' = clock
    /\ clock' = clock + 1
    /\ frame_count' = frame_count + 1
    /\ total_frames_processed' = frame_count + 1
    /\ current_track_ids' = {}
    /\ pc' = "detect"
    /\ UNCHANGED <<extVars, tracked_objects, total_unique_objects, active_track_ids, threat_alerts,
                   inputs, last_call, total_kv_updates, reconVars, reconObs, commVars>>

\* cap.read() fails: break
ReadFails ==
    /\ pc = "read"
    /\ pc' = "finally"
    /\ UNCHANGED <<extVars, storeVars, storeObs, frame_count, frame_timestamp, pending,
                   current_track_ids, total_kv_updates, reconVars, reconObs, commVars>>

\* one iteration of the loop over the boxes of the frame
ProcessDetection ==
    /\ pc = "detect"
    /\ \E track_id \in pending, label \in LoopLabels, confidence \in LoopConfs :
         /\ ts_update_object(track_id, label, confidence, "b0", frame_timestamp)
         /\ Observe(track_id, label, confidence, "b0", frame_timestamp, "none")
         /\ current_track_ids' = current_track_ids \cup {track_id}
         /\ pending' = pending \ {track_id}
    /\ UNCHANGED <<extVars, clock, pc, frame_count, frame_timestamp, total_kv_updates,
                   reconVars, reconObs, commVars>>

\* tracking_state.mark_inactive_objects(current_track_ids)
MarkStep ==
    /\ pc = "detect"
    /\ pending = {}
    /\ MarkInactive(current_track_ids)
    /\ pc' = "publish"
    /\ UNCHANGED <<extVars, frame_count, frame_timestamp, pending, current_track_ids,
                   total_kv_updates, reconVars, reconObs, commVars>>

\* the KV publish gate: publish_tracking_state is awaited when some object
\* has args.min_frames frames
PublishStep ==
    /\ pc = "publish"
    /\ IF get_persistent_objects(args_min_frames) # << >>
         THEN \E outcome \in PublishOutcomes(kv) :
                /\ published' = Append(published, tracking_state_snapshot(outcome))
                /\ total_kv_updates' = total_kv_updates + 1
                /\ pc' = after_publish(outcome, "display")
         ELSE /\ pc' = "display"
              /\ UNCHANGED <<published, total_kv_updates>>
    /\ UNCHANGED <<extVars, storeVars, storeObs, frame_count, frame_timestamp, pending,
                   current_track_ids, reconVars, reconObs,
                   args_min_frames, js, kv, cleanup_task, interrupted_at>>

\* the overlay and cv2.waitKey: 'q' leaves the loop
DisplayStep ==
    /\ pc = "display"
    /\ \E quit \in BOOLEAN : pc' = IF quit THEN "finally" ELSE "read"
    /\ UNCHANGED <<extVars, storeVars, storeObs, frame_count, frame_timestamp, pending,
                   current_track_ids, total_kv_updates, reconVars, reconObs, commVars>>

\* the finally block: the statistics, then cleanup() publishes the shutdown
\* event and drains and closes the connection
Finally ==
    /\ pc = "finally"
    /\ \E outcome \in PublishOutcomes(js) :
         published' = published \o <<shutdown_event("main", outcome), teardown_event("main")>>
    /\ pc' = "done"
    /\ UNCHANGED <<extVars, storeVars, storeObs, frame_count, frame_timestamp, pending,
                   current_track_ids, total_kv_updates, reconVars, reconObs,
                   args_min_frames, js, kv, cleanup_task, interrupted_at>>

\* the frame loop is about to start
InitLoopVars ==
    /\ pc = "read"
    /\ frame_count = 0
    /\ frame_timestamp = 0
    /\ pending = {}
    /\ current_track_ids = {}
    /\ total_kv_updates = 0
    /\ cleanup_task = "none"
    /\ interrupted_at = NotInterrupted

\* main before the frame loop, run with the default --min-frames; setup_nats
\* found the KV store and published the bootsequence
InitLoop ==
    /\ InitLoopVars
    /\ args_min_frames = MIN_FRAMES
    /\ js = TRUE
    /\ kv = TRUE
    /\ published = <<bootsequence_event("ok")>>

InitL == InitRecon /\ InitReconObs /\ InitStore /\ InitStoreObs /\ InitLoop
          /\ InitNoThreats /\ InitNoThreads /\ InitNoDetector /\ InitNoEncoder
NextL == ReadFrame \/ ReadFails \/ ProcessDetection \/ MarkStep \/ PublishStep
           \/ DisplayStep \/ Finally
SpecLoop == InitL /\ [][NextL]_vars

\* ------------------- specification: frame loop of detect_yoloe.py, configured
\* The same loop run with any --min-frames of MinFramesArgs, with or
\* without a KV store.

\* --min-frames 1 (every detection is persistent at once) and the default
MinFramesArgs == {1, MIN_FRAMES}

InitLoopConfigured ==
    /\ InitLoopVars
    /\ args_min_frames \in MinFramesArgs
    /\ js = TRUE
    /\ kv \in BOOLEAN
    /\ published = <<bootsequence_event("ok")>>

InitP == InitRecon /\ InitReconObs /\ InitStore /\ InitStoreObs /\ InitLoopConfigured
          /\ InitNoThreats /\ InitNoThreads /\ InitNoDetector /\ InitNoEncoder
SpecPublish == InitP /\ [][NextL]_vars

\* --------------------- specification: session of detect_yoloe_c4isr.py
\* main(): setup_nats, then the frame loop: model.predict, for every
\* detection update_object under a fresh track ID and one detection
\* event, then mark_inactive_objects, the threat-intelligence gate and the
\* display; the finally block runs cleanup().  SIGINT runs signal_handler.

\* at most MaxSessionFrames frames are read
MaxSessionFrames == 2
\* --min-frames, default 1
C4ISR_MIN_FRAMES == 1

\* the class names of the detections of one frame, in the order of the boxes
SessionFrames == {<< >>, <<"knife">>, <<"backpack">>, <<"person", "knife">>}
SessionConfs == {90}

\* main up to the frame loop
SessionSetup ==
    /\ pc = "setup"
    /\ setup_nats
    /\ pc' = "read"
    /\ UNCHANGED <<extVars, storeVars, storeObs, frame_count, frame_timestamp, pending,
                   current_track_ids, total_kv_updates, reconVars, reconObs,
                   args_min_frames, cleanup_task, interrupted_at>>

\* ret, frame = cap.read() succeeds; model.predict returns the boxes
SessionReadFrame ==
    /\ pc = "read"
    /\ frame_count < MaxSessionFrames
    /\ pending' \in SessionFrames
    /\ frame_timestamp' = clock
    /\ clock' = clock + 1
    /\ frame_count' = frame_count + 1
    /\ total_frames_processed' = frame_count + 1
    /\ current_track_ids' = {}
    /\ pc' = "detect"
    /\ UNCHANGED <<extVars, tracked_objects, total_unique_objects, active_track_ids, threat_alerts,
                   inputs, last_call, total_kv_updates, reconVars, reconObs, commVars>>

\* str(n) of a natural number, as the list of its characters
RECURSIVE str(_)
str(n) ==
    LET digit == <<"0", "1", "2", "3", "4", "5", "6", "7", "8", "9">>[(n % 10) + 1]
    IN  IF n < 10 THEN <<digit>> ELSE Append(str(n \div 10), digit)

\* a native ID made of the position in the frame alone
make_native_id_idx_only(frame_index, position) == str(position)

\* native_id = f"{frame_count}_{idx}"
make_native_id(frame_index, position) == str(frame_index) \o <<"_">> \o str(position)

\* a track ID made of the position in the frame alone
session_track_id_of_position(idx) == str(idx)

\* track_id = f"{frame_count}_{idx}" of the detection being processed
SessionTrackId(idx) == make_native_id(frame_count, idx)

\* one detection of the frame: update_object under its fresh track ID
SessionUpdate ==
    /\ pc = "detect"
    /\ pending # << >>
    /\ LET track_id == SessionTrackId(Cardinality(current_track_ids))
           class_name == Head(pending)
       IN  \E conf \in SessionConfs :
             /\ update_object(track_id, class_name, conf, "b0", frame_timestamp,
                              get_threat_level(class_name))
             /\ Observe(track_id, class_name, conf, "b0", frame_timestamp,
                        get_threat_level(class_name))
             /\ current_track_ids' = current_track_ids \cup {track_id}
    /\ pc' = "emit"
    /\ UNCHANGED <<extVars, clock, frame_count, frame_timestamp, pending, total_kv_updates,
                   reconVars, reconObs, commVars>>

\* await publish_detection_event(js, {...}, entity_id) for that detection;
\* the record of the fresh track holds the confidence of the detection
SessionPublishDetection ==
    /\ pc = "emit"
    /\ LET track_id == SessionTrackId(Cardinality(current_track_ids) - 1)
           obj == tracked_objects[track_id]
       IN  \E outcome \in PublishOutcomes(js) :
             /\ published' = publish_detection_event(
                                detection_event(track_id, Head(pending), obj.max_confidence,
                                                get_threat_level(Head(pending)),
                                                frame_timestamp, outcome))
             /\ pc' = after_publish(outcome, "detect")
    /\ pending' = Tail(pending)
    /\ UNCHANGED <<extVars, storeVars, storeObs, frame_count, frame_timestamp, current_track_ids,
                   total_kv_updates, reconVars, reconObs,
                   args_min_frames, js, kv, cleanup_task, interrupted_at>>

\* tracking_state.mark_inactive_objects(current_track_ids)
SessionMarkStep ==
    /\ pc = "detect"
    /\ pending = << >>
    /\ MarkInactive(current_track_ids)
    /\ pc' = "publish"
    /\ UNCHANGED <<extVars, frame_count, frame_timestamp, pending, current_track_ids,
                   total_kv_updates, reconVars, reconObs, commVars>>

\* the threat-intelligence gate: publish_threat_intelligence is awaited when
\* some object has args.min_frames frames
SessionPublishStep ==
    /\ pc = "publish"
    /\ IF get_persistent_objects(args_min_frames) # << >>
         THEN \E outcome \in PublishOutcomes(kv) :
                /\ published' = Append(published, threat_intelligence(outcome))
                /\ total_kv_updates' = total_kv_updates + 1
                /\ pc' = after_publish(outcome, "display")
         ELSE /\ pc' = "display"
              /\ UNCHANGED <<published, total_kv_updates>>
    /\ UNCHANGED <<extVars, storeVars, storeObs, frame_count, frame_timestamp, pending,
                   current_track_ids, reconVars, reconObs,
                   args_min_frames, js, kv, cleanup_task, interrupted_at>>

\* the positions of the frame loop
InFrameLoop == pc \in {"read", "detect", "emit", "publish", "display"}

\* SIGINT: signal_handler creates a task for cleanup() and calls
\* sys.exit(0); SystemExit is raised where the loop stands and runs the
\* finally block.  When the signal lands in the synchronous part of the
\* frame the task gets its first step at the next await of main; when it
\* lands while the event loop waits, the runner cancels the task unstarted.
signal_handler ==
    /\ InFrameLoop
    /\ cleanup_task = "none"
    /\ cleanup_task' \in {"scheduled", "cancelled"}
    /\ interrupted_at' = [pc |-> pc, frame |-> frame_count,
                          updated |-> current_track_ids, pending |-> pending]
    /\ pc' = "finally"
    /\ UNCHANGED <<extVars, storeVars, storeObs, frame_count, frame_timestamp, pending,
                   current_track_ids, total_kv_updates, reconVars, reconObs,
                   args_min_frames, js, kv, published>>

\* the finally block up to the first await of cleanup(): the shutdown publish
SessionFinally ==
    /\ pc = "finally"
    /\ \E outcome \in PublishOutcomes(js) :
         published' = Append(published, shutdown_event("main", outcome))
    /\ pc' = "teardown"
    /\ UNCHANGED <<extVars, storeVars, storeObs, frame_count, frame_timestamp, pending,
                   current_track_ids, total_kv_updates, reconVars, reconObs,
                   args_min_frames, js, kv, cleanup_task, interrupted_at>>

\* the task of the signal handler runs cleanup(): js is still set, so it
\* publishes a shutdown event of its own
TaskCleanup ==
    /\ cleanup_task = "scheduled"
    /\ pc = "teardown"
    /\ \E outcome \in PublishOutcomes(js) :
         published' = Append(published, shutdown_event("task", outcome))
    /\ cleanup_task' = "published"
    /\ UNCHANGED <<extVars, storeVars, storeObs, loopVars, reconVars, reconObs,
                   args_min_frames, js, kv, interrupted_at>>

\* the task reaches nc.drain() before main has closed the connection
TaskTeardown ==
    /\ cleanup_task = "published"
    /\ pc = "teardown"
    /\ published' = Append(published, teardown_event("task"))
    /\ cleanup_task' = "done"
    /\ UNCHANGED <<extVars, storeVars, storeObs, loopVars, reconVars, reconObs,
                   args_min_frames, js, kv, interrupted_at>>

\* cleanup() of main after its publish: nc.drain(), nc.close(); main returns
\* and the process exits
SessionTeardown ==
    /\ pc = "teardown"
    /\ cleanup_task # "scheduled"
    /\ published' = Append(published, teardown_event("main"))
    /\ pc' = "done"
    /\ UNCHANGED <<extVars, storeVars, storeObs, frame_count, frame_timestamp, pending,
                   current_track_ids, total_kv_updates, reconVars, reconObs,
                   args_min_frames, js, kv, cleanup_task, interrupted_at>>

\* main is entered with the default arguments, NATS not yet connected
InitSession ==
    /\ pc = "setup"
    /\ frame_count = 0
    /\ frame_timestamp = 0
    /\ pending = << >>
    /\ current_track_ids = {}
    /\ total_kv_updates = 0
    /\ args_min_frames = C4ISR_MIN_FRAMES
    /\ js = FALSE
    /\ kv = FALSE
    /\ published = << >>
    /\ cleanup_task = "none"
    /\ interrupted_at = NotInterrupted

InitC == InitRecon /\ InitReconObs /\ InitStore /\ InitStoreObs /\ InitSession
          /\ InitNoThreats /\ InitNoThreads /\ InitNoDetector /\ InitNoEncoder
NextC == SessionSetup \/ SessionReadFrame \/ ReadFails \/ SessionUpdate
           \/ SessionPublishDetection \/ SessionMarkStep \/ SessionPublishStep
           \/ DisplayStep \/ signal_handler \/ SessionFinally \/ TaskCleanup
           \/ TaskTeardown \/ SessionTeardown
SpecSession == InitC /\ [][NextC]_vars

\* ------------------------------------------------------ publish properties

\* the last entry of the log is the snapshot attempt of the current frame
SnapshotAttempted(kind) ==
    /\ published # << >>
    /\ published[Len(published)].kind = kind
    /\ published[Len(published)].frame = frame_count

\* C14 (snapshot gate and content): after the publish step of a frame, a KV
\* snapshot write was attempted iff get_persistent_objects(args.min_frames)
\* is non-empty, and the objects of an attempted snapshot are exactly
\* get_persistent_objects(args.min_frames) for that same configured value.
C14_SnapshotGateAndContent ==
    pc = "display" =>
        LET persistent == get_persistent_objects(args_min_frames)
            snapshot == published[Len(published)]
        IN  /\ persistent # << >> <=> SnapshotAttempted("tracking_state")
            /\ (SnapshotAttempted("tracking_state") /\ snapshot.outcome # "skipped")
                 => snapshot.tracked_objects = persistent

\* the entries a step appends to the log
NewEntries == {published'[i] : i \in (Len(published) + 1)..Len(published')}

\* the KV snapshots that were built
IsSnapshot(e) ==
    e.kind \in {"threat_intelligence", "tracking_state"} /\ e.outcome # "skipped"

\* C15 as stated (noise suppression): no published output, detection event
\* or KV snapshot, mentions a track that has been observed in one frame
\* only when it is published.
C15_EventsSuppressed ==
    \A e \in NewEntries :
        e.kind = "detection" => tracked_objects'[e.track_id].frame_count # 1

C15_SnapshotsSuppressed ==
    \A e \in NewEntries :
        IsSnapshot(e) =>
            \A t \in DOMAIN tracked_objects :
                tracked_objects[t].frame_count = 1
                => /\ t \notin DOMAIN e.tracked_objects
                   /\ t \notin e.analytics.active_track_ids

C16_AlertLevel ==
    (pc = "display" /\ SnapshotAttempted("threat_intelligence")
       /\ published[Len(published)].outcome # "skipped")
    => LET snapshot == published[Len(published)]
           high_active == \E t \in DOMAIN tracked_objects :
                             /\ tracked_objects[t].threat_level = "HIGH_THREAT"
                             /\ tracked_objects[t].is_active
       IN  /\ snapshot.alert_level \in {"HIGH", "NORMAL"}
           /\ snapshot.alert_level = "HIGH" <=> high_active

\* a snapshot with alert level NORMAL built while a MEDIUM_THREAT track is
\* active and the only HIGH_THREAT track is inactive
C16_Witness ==
    /\ pc = "display"
    /\ SnapshotAttempted("threat_intelligence")
    /\ published[Len(published)].outcome = "ok"
    /\ published[Len(published)].alert_level = "NORMAL"
    /\ \E t \in DOMAIN tracked_objects :
         tracked_objects[t].threat_level = "HIGH_THREAT" /\ ~tracked_objects[t].is_active
    /\ \E t \in DOMAIN tracked_objects :
         tracked_objects[t].threat_level = "MEDIUM_THREAT" /\ tracked_objects[t].is_active

\* C17 (publish isolation): a step that makes a bootsequence, detection or
\* snapshot attempt, whatever its outcome (ok, error, skipped), leaves the
\* tracking state (records, active set, counters, alerts) as it was and
\* hands control to the statement after the publish: no exception ends the
\* frame loop, which goes on with the next detection, the display and the
\* next frame.
C17_NextPosition(kind) ==
    CASE kind = "bootsequence" -> "read"
      [] kind = "detection" -> "detect"
      [] kind = "threat_intelligence" -> "display"

C17_Isolated ==
    \A e \in NewEntries :
        e.kind \in {"bootsequence", "detection", "threat_intelligence"}
        => /\ UNCHANGED storeVars
           /\ pc' = C17_NextPosition(e.kind)
           /\ pc' \notin {"finally", "teardown", "done"}

C17_PublishIsolation == [][C17_Isolated]_vars

\* without a KV store, the detection publish of frame 1 failed and its
\* snapshot was skipped; the loop is processing frame 2 with the records of
\* frame 1 still there
C17_Witness ==
    /\ ~kv
    /\ frame_count = 2
    /\ pc = "detect"
    /\ \E i \in 1..Len(published), j \in 1..Len(published) :
         /\ published[i].kind = "detection"
         /\ published[i].frame = 1
         /\ published[i].outcome = "error"
         /\ published[j].kind = "threat_intelligence"
         /\ published[j].frame = 1
         /\ published[j].outcome = "skipped"
         /\ published[i].track_id \in DOMAIN tracked_objects
    /\ total_unique_objects >= 1

\* C18 (at-most-once delivery): every detection and every frame snapshot
\* has at most one publish attempt in the log, failed attempts included;
\* an attempt is made in the frame of its detection or snapshot, never in
\* a later frame, and no step makes more than one attempt.
C18_Detections == EntriesOfKind(published, "detection")
C18_Snapshots == EntriesOfKind(published, "threat_intelligence")

C18_OneAttemptEach ==
    /\ \A i, j \in 1..Len(C18_Detections) :
         C18_Detections[i].track_id = C18_Detections[j].track_id => i = j
    /\ \A i \in 1..Len(C18_Detections) :
         /\ C18_Detections[i].track_id \in DOMAIN inputs
         /\ C18_Detections[i].timestamp = inputs[C18_Detections[i].track_id][1].ts
    /\ \A i, j \in 1..Len(C18_Snapshots) :
         C18_Snapshots[i].frame = C18_Snapshots[j].frame => i = j

C18_InItsFrame ==
    /\ Cardinality(NewEntries) <= 1
    /\ Len(published') <= Len(published) + 1
    /\ \A e \in NewEntries :
         /\ e.kind = "detection"
              => /\ \E i \in 0..Cardinality(current_track_ids) :
                      e.track_id = make_native_id(frame_count, i)
                 /\ e.timestamp = frame_timestamp
                 /\ e.track_id \in current_track_ids
         /\ e.kind = "threat_intelligence" => e.frame = frame_count

C18_AtMostOnce == [](C18_OneAttemptEach) /\ [][C18_InItsFrame]_vars

\* the detection publish of frame 1 failed; in frame 2 one attempt was made
\* for the detection of frame 2 and none for that of frame 1
C18_Witness ==
    /\ frame_count = 2
    /\ pc = "detect"
    /\ pending = << >>
    /\ Len(C18_Detections) = 2
    /\ C18_Detections[1].frame = 1
    /\ C18_Detections[1].outcome = "error"
    /\ C18_Detections[2].frame = 2

\* C19 (lifecycle events): once setup is over exactly one bootsequence
\* publish has been attempted and it is the first entry of the log; no
\* session attempts more than one shutdown publish, a session that has
\* ended attempted exactly one, and a shutdown publish is followed by no
\* detection event or KV write, only by connection teardown.
C19_Bootsequence ==
    pc # "setup" =>
        /\ Len(EntriesOfKind(published, "bootsequence")) = 1
        /\ published[1].kind = "bootsequence"

C19_Shutdown ==
    /\ Len(EntriesOfKind(published, "shutdown")) <= 1
    /\ pc = "done" => Len(EntriesOfKind(published, "shutdown")) = 1
    /\ \A i, j \in 1..Len(published) :
         (i < j /\ published[i].kind = "shutdown") => published[j].kind = "teardown"

C19_LifecycleEvents == C19_Bootsequence /\ C19_Shutdown

\* C20 (interrupt handling): when the interrupt signal found a frame in
\* progress, then by the time a shutdown event is published that frame is
\* complete: every detection still pending at the signal has been passed to
\* update_object, the frame's mark_inactive_objects was the last call on
\* the tracking state, and its snapshot step has run; the shutdown publish
\* precedes connection teardown.
C20_FrameTracks(frame) ==
    {t \in DOMAIN tracked_objects :
        \E i \in 0..Cardinality(DOMAIN tracked_objects) : t = make_native_id(frame, i)}

C20_ShutdownPublished == EntriesOfKind(published, "shutdown") # << >>

C20_FrameCompleted ==
    LET at == interrupted_at
        was_updating == at.pc \in {"detect", "emit"}
        remaining == IF at.pc = "emit" THEN Len(at.pending) - 1 ELSE Len(at.pending)
    IN  /\ was_updating =>
              /\ Cardinality(C20_FrameTracks(at.frame))
                   = Cardinality(at.updated) + remaining
              /\ last_call.op = "mark"
              /\ last_call.ids = C20_FrameTracks(at.frame)
        /\ (at.pc \in {"detect", "emit", "publish"}
              /\ get_persistent_objects(args_min_frames) # << >>)
             => \E i \in 1..Len(published) :
                    /\ published[i].kind = "threat_intelligence"
                    /\ published[i].frame = at.frame

C20_FrameNotCutShort ==
    /\ (interrupted_at.pc # "none" /\ C20_ShutdownPublished) => C20_FrameCompleted
    /\ \A i, j \in 1..Len(published) :
         (published[i].kind = "teardown" /\ published[j].kind = "shutdown") => j < i

\* ------------------------------------------------ tracking store properties

\* C3 (frame count and running mean): every track passed to update_object N
\* times has frame_count = N, total_confidence = the sum of the N supplied
\* confidences and avg_confidence = total_confidence / frame_count; no
\* operation decreases frame_count.
C3_Counts ==
    \A t \in DOMAIN tracked_objects :
        LET obj == tracked_objects[t]
        IN  /\ obj.frame_count = Len(InputsOf(t))
            /\ obj.total_confidence = SumConfidence(InputsOf(t))
            /\ obj.avg_confidence[2] > 0
            /\ obj.avg_confidence[1] * obj.frame_count
                 = obj.total_confidence * obj.avg_confidence[2]

C3_NeverDecreases ==
    \A t \in DOMAIN tracked_objects :
        /\ t \in DOMAIN tracked_objects'
        /\ tracked_objects'[t].frame_count >= tracked_objects[t].frame_count

C3_FrameCountAndMean == [](C3_Counts) /\ [][C3_NeverDecreases]_vars

\* a track updated three times with different confidences, then marked inactive
C3_Witness ==
    \E t \in DOMAIN tracked_objects :
        /\ tracked_objects[t].frame_count = 3
        /\ tracked_objects[t].total_confidence = 170
        /\ tracked_objects[t].avg_confidence = <<170, 3>>
        /\ ~tracked_objects[t].is_active
        /\ last_call.op = "mark"

\* C4 (persistence gate): get_persistent_objects(k) holds a track ID iff the
\* track's frame_count >= k, active or not, with the track's record as its
\* value; the query changes nothing of the store.
C4_Gate ==
    last_call.op = "persistent" =>
        /\ DOMAIN last_call.result \subseteq DOMAIN tracked_objects
        /\ \A t \in DOMAIN tracked_objects :
             /\ (t \in DOMAIN last_call.result)
                  <=> (tracked_objects[t].frame_count >= last_call.min_frames)
             /\ t \in DOMAIN last_call.result => last_call.result[t] = tracked_objects[t]

C4_QueryIsPure ==
    last_call'.op = "persistent" => UNCHANGED storeVars

C4_PersistenceGate == [](C4_Gate) /\ [][C4_QueryIsPure]_vars

\* threshold 2: an inactive track seen twice is in the result, an active
\* track seen once is not
C4_Witness ==
    /\ last_call.op = "persistent"
    /\ last_call.min_frames = 2
    /\ \E t \in DOMAIN tracked_objects :
         /\ tracked_objects[t].frame_count = 2
         /\ ~tracked_objects[t].is_active
         /\ t \in DOMAIN last_call.result
    /\ \E t \in DOMAIN tracked_objects :
         /\ tracked_objects[t].frame_count = 1
         /\ tracked_objects[t].is_active
         /\ t \notin DOMAIN last_call.result

\* C5 (inactive transition and reactivation): mark_inactive_objects(S) makes
\* every known track outside S inactive and takes it out of the active-ID
\* set, and does not touch the activity of a track in S (an active one stays
\* active); update_object on an inactive track makes it active again, puts it
\* back in the active-ID set, adds one to its frame_count and keeps
\* first_seen and the bbox history.
C5_Mark ==
    last_call'.op = "mark" =>
        \A t \in DOMAIN tracked_objects :
            IF t \notin last_call'.ids
              THEN /\ ~tracked_objects'[t].is_active
                   /\ t \notin active_track_ids'
              ELSE /\ tracked_objects'[t].is_active = tracked_objects[t].is_active
                   /\ (t \in active_track_ids') <=> (t \in active_track_ids)

C5_Reactivate ==
    (/\ last_call'.op = "update"
     /\ last_call'.track_id \in DOMAIN tracked_objects
     /\ ~tracked_objects[last_call'.track_id].is_active)
    => LET t == last_call'.track_id
           before == tracked_objects[t]
           after == tracked_objects'[t]
       IN  /\ after.is_active
           /\ t \in active_track_ids'
           /\ after.frame_count = before.frame_count + 1
           /\ after.first_seen = before.first_seen
           /\ after.bbox_history
                = LastN(Append(before.bbox_history, inputs'[t][Len(inputs'[t])].bbox),
                        BBOX_HISTORY_LIMIT)

C5_InactiveAndBack == [][C5_Mark /\ C5_Reactivate]_vars

\* A and B active, mark_inactive_objects({A}), then update_object on B
C5_Witness ==
    /\ last_call.op = "update"
    /\ \E a \in DOMAIN tracked_objects :
         /\ ~tracked_objects[a].is_active
         /\ tracked_objects[a].frame_count = 1
    /\ LET b == last_call.track_id
       IN  /\ tracked_objects[b].is_active
           /\ tracked_objects[b].frame_count = 2
           /\ tracked_objects[b].last_seen > tracked_objects[b].first_seen + 1

\* C8 (latest label wins): after an update_object on a known track the
\* record's label and threat_level are those of that latest call; in the
\* scenario person, person, knife, knife with confidences 0.6, 0.7, 0.8, 0.9
\* there is one track with frame_count 4, avg_confidence 0.75, max_confidence
\* 0.9 and threat_level HIGH_THREAT.
C8_LatestLabelWins ==
    /\ \A t \in DOMAIN tracked_objects :
         /\ tracked_objects[t].label = InputsOf(t)[Len(InputsOf(t))].label
         /\ tracked_objects[t].threat_level = InputsOf(t)[Len(InputsOf(t))].threat_level
    /\ (/\ Len(InputsOf(ScenarioTrack)) = 4
        /\ \A i \in 1..4 :
             /\ InputsOf(ScenarioTrack)[i].label = <<"person", "person", "knife", "knife">>[i]
             /\ InputsOf(ScenarioTrack)[i].confidence = <<60, 70, 80, 90>>[i])
       => /\ DOMAIN tracked_objects = {ScenarioTrack}
          /\ tracked_objects[ScenarioTrack].frame_count = 4
          /\ tracked_objects[ScenarioTrack].avg_confidence = <<75, 1>>
          /\ tracked_objects[ScenarioTrack].max_confidence = 90
          /\ tracked_objects[ScenarioTrack].threat_level = "HIGH_THREAT"

\* C9 (alerts at first sight only): the alerts recorded are exactly one per
\* track whose first update_object call carried HIGH_THREAT or MEDIUM_THREAT,
\* with the label, tier and time of that first call; an alert is appended
\* only by the call that creates the track, never by a later one.
AlertedAtCreation ==
    {t \in DOMAIN inputs : inputs[t][1].threat_level \in {"HIGH_THREAT", "MEDIUM_THREAT"}}

C9_Alerts ==
    /\ Len(threat_alerts) = Cardinality(AlertedAtCreation)
    /\ \A i \in 1..Len(threat_alerts) :
         LET a == threat_alerts[i]
         IN  /\ a.track_id \in AlertedAtCreation
             /\ a.threat_level = inputs[a.track_id][1].threat_level
             /\ a.label = inputs[a.track_id][1].label
             /\ a.first_detected = inputs[a.track_id][1].ts
             /\ \A j \in 1..Len(threat_alerts) :
                  threat_alerts[j].track_id = a.track_id => j = i

C9_AppendedAtCreation ==
    threat_alerts' # threat_alerts =>
        /\ last_call'.op = "update"
        /\ last_call'.track_id \notin DOMAIN tracked_objects
        /\ Len(threat_alerts') = Len(threat_alerts) + 1
        /\ SubSeq(threat_alerts', 1, Len(threat_alerts)) = threat_alerts

C9_AlertsAtFirstSight == [](C9_Alerts) /\ [][C9_AppendedAtCreation]_vars

\* a track created LOW_THREAT and later seen as HIGH_THREAT has no alert,
\* a track created MEDIUM_THREAT has one
C9_Witness ==
    /\ Len(threat_alerts) = 1
    /\ \E t \in DOMAIN inputs :
         /\ Len(inputs[t]) >= 2
         /\ inputs[t][1].threat_level = "LOW_THREAT"
         /\ inputs[t][2].threat_level = "HIGH_THREAT"
         /\ threat_alerts[1].track_id # t
    /\ threat_alerts[1].threat_level = "MEDIUM_THREAT"

\* C11 (records are created lazily and never deleted): the set of track
\* records is the set of track IDs ever passed to update_object and
\* total_unique_objects is its size; no step shrinks the record set or the
\* count, and mark_inactive_objects, get_persistent_objects and
\* get_analytics leave both as they are.
C11_Records ==
    /\ DOMAIN tracked_objects = DOMAIN inputs
    /\ total_unique_objects = Cardinality(DOMAIN inputs)

C11_NeverShrinks ==
    /\ DOMAIN tracked_objects \subseteq DOMAIN tracked_objects'
    /\ total_unique_objects' >= total_unique_objects
    /\ last_call'.op \in {"mark", "persistent", "analytics"}
         => /\ DOMAIN tracked_objects' = DOMAIN tracked_objects
            /\ total_unique_objects' = total_unique_objects

C11_NeverDeleted == [](C11_Records) /\ [][C11_NeverShrinks]_vars

\* two tracks were created and mark_inactive_objects has just turned one of
\* them inactive: both records are still there
C11_Witness ==
    /\ last_call.op = "mark"
    /\ total_unique_objects = 2
    /\ DOMAIN tracked_objects = StoreTracks
    /\ \E t \in DOMAIN tracked_objects : ~tracked_objects[t].is_active

\* C12 (get_analytics counts only active tracks): in every reachable state
\* active_objects_count is the number of records with is_active set, the
\* label counts and the threat-level counts each sum to that number, every
\* count is the number of active records carrying the label / level, and a
\* label or level carried only by inactive records has no entry.
C12_Active == {t \in DOMAIN tracked_objects : tracked_objects[t].is_active = TRUE}

C12_Distribution(dist, field) ==
    /\ SumCounts(dist) = Cardinality(C12_Active)
    /\ \A k \in DOMAIN dist :
         /\ dist[k] = Cardinality({t \in C12_Active : tracked_objects[t][field] = k})
         /\ dist[k] > 0
    /\ \A t \in DOMAIN tracked_objects :
         tracked_objects[t][field] \notin DOMAIN dist => ~tracked_objects[t].is_active

C12_ActiveOnly ==
    /\ get_analytics.active_objects_count = Cardinality(C12_Active)
    /\ C12_Distribution(get_analytics.label_distribution, "label")
    /\ C12_Distribution(get_analytics.threat_distribution, "threat_level")
    /\ ts_get_analytics.active_objects_count = Cardinality(C12_Active)
    /\ C12_Distribution(ts_get_analytics.label_distribution, "label")
    /\ last_call.op = "analytics" => last_call.result = get_analytics

\* get_analytics has been called with an active knife and an inactive
\* person on record: the person is counted nowhere
C12_Witness ==
    /\ last_call.op = "analytics"
    /\ last_call.result.tracked_objects_count = 2
    /\ last_call.result.active_objects_count = 1
    /\ last_call.result.label_distribution = [l \in {"knife"} |-> 1]
    /\ last_call.result.threat_distribution = [v \in {"HIGH_THREAT"} |-> 1]
    /\ \E t \in DOMAIN tracked_objects :
         tracked_objects[t].label = "person" /\ ~tracked_objects[t].is_active

\* C13 (alert window): the threat_alerts reported by get_analytics hold at
\* most 10 entries and are the 10 most recently recorded alerts (all of
\* them when fewer than 10 were recorded), in the order recorded.  The
\* alerts ever recorded are read off the update_object calls: one for every
\* track whose first sighting was HIGH_THREAT or MEDIUM_THREAT, in the
\* order of the first sightings.
C13_Alerting ==
    {t \in DOMAIN inputs : inputs[t][1].threat_level \in {"HIGH_THREAT", "MEDIUM_THREAT"}}

\* the position of the alert of track t among the alerts ever recorded
C13_Rank(t) ==
    Cardinality({u \in C13_Alerting : inputs[u][1].ts <= inputs[t][1].ts})

C13_AlertWindow ==
    last_call.op = "analytics" =>
        LET reported == last_call.result.threat_alerts
            n == Cardinality(C13_Alerting)
            m == IF n < 10 THEN n ELSE 10
        IN  /\ Len(reported) <= 10
            /\ Len(reported) = m
            /\ \A i \in 1..m :
                 /\ reported[i].track_id \in C13_Alerting
                 /\ C13_Rank(reported[i].track_id) = n - m + i
                 /\ reported[i].first_detected = inputs[reported[i].track_id][1].ts

\* get_analytics after 12 alerts: alerts 3 to 12 are reported
C13_Witness ==
    /\ last_call.op = "analytics"
    /\ Len(threat_alerts) = 12
    /\ Len(last_call.result.threat_alerts) = 10
    /\ last_call.result.threat_alerts[1] = threat_alerts[3]
    /\ last_call.result.threat_alerts[10] = threat_alerts[12]
    /\ threat_alerts[3] # threat_alerts[2]

\* C6 (activity at the end of a frame): when the snapshot of a frame is
\* taken, after its update_object calls and its one mark_inactive_objects,
\* a known track is active iff it was updated in that frame; a track turns
\* inactive only in the mark_inactive_objects of a frame it is absent from.
UpdatedThisFrame(t) ==
    /\ InputsOf(t) # << >>
    /\ InputsOf(t)[Len(InputsOf(t))].ts = frame_timestamp

C6_AtSnapshot ==
    pc = "publish" =>
        \A t \in DOMAIN tracked_objects :
            /\ tracked_objects[t].is_active <=> UpdatedThisFrame(t)
            /\ (t \in active_track_ids) <=> UpdatedThisFrame(t)

C6_OnlyWhenAbsent ==
    \A t \in DOMAIN tracked_objects :
        (tracked_objects[t].is_active /\ ~tracked_objects'[t].is_active)
        => /\ pc = "detect" /\ pending = {} /\ pc' = "publish"
           /\ ~UpdatedThisFrame(t)

C6_ActiveIffSeen == [](C6_AtSnapshot) /\ [][C6_OnlyWhenAbsent]_vars

\* the snapshot point of a frame with one track seen and one absent, the
\* absent one seen in the frame before
C6_Witness ==
    /\ pc = "publish"
    /\ frame_count >= 2
    /\ \E a \in DOMAIN tracked_objects, b \in DOMAIN tracked_objects :
         /\ tracked_objects[a].is_active
         /\ tracked_objects[a].last_seen = frame_timestamp
         /\ ~tracked_objects[b].is_active
         /\ tracked_objects[b].last_seen = frame_timestamp - 1

\* C7 (bounded history): bbox_history never holds more than 30 entries and
\* after n update_object calls it is the last min(n, 30) supplied boxes in
\* the order supplied.
C7_BoundedHistory ==
    \A t \in DOMAIN tracked_objects :
        LET h == tracked_objects[t].bbox_history
            n == Len(InputsOf(t))
            m == Min(n, BBOX_HISTORY_LIMIT)
        IN  /\ Len(h) <= BBOX_HISTORY_LIMIT
            /\ Len(h) = m
            /\ \A i \in 1..m : h[i] = InputsOf(t)[n - m + i].bbox

\* 40 updates of one track: the history is updates 11..40
C7_Witness ==
    \E t \in DOMAIN tracked_objects :
        /\ Len(InputsOf(t)) = 40
        /\ Len(tracked_objects[t].bbox_history) = 30
        /\ tracked_objects[t].bbox_history[1] = InputsOf(t)[11].bbox
        /\ tracked_objects[t].bbox_history[30] = InputsOf(t)[40].bbox
        /\ InputsOf(t)[11].bbox # InputsOf(t)[10].bbox

\* ------------------------------------------ threat table: config/threats.py

\* THREAT_CATEGORIES, in the order of the dictionary
THREAT_CATEGORIES == <<
    [threat_level |-> "HIGH_THREAT",
     classes |-> <<"weapon", "knife", "gun", "rifle", "pistol", "explosive", "bomb">>],
    [threat_level |-> "MEDIUM_THREAT",
     classes |-> <<"suspicious package", "unattended bag", "backpack", "suitcase",
                   "unauthorized vehicle", "truck", "van">>],
    [threat_level |-> "LOW_THREAT",
     classes |-> <<"person", "car", "bicycle", "motorcycle", "dog">>],
    [threat_level |-> "NORMAL",
     classes |-> <<"traffic light", "stop sign", "bench", "bird", "cat">>] >>

ThreatLevels == {THREAT_CATEGORIES[i].threat_level : i \in DOMAIN THREAT_CATEGORIES}

\* the elements of a list
Elements(list) == {list[i] : i \in DOMAIN list}

\* the inner loop of build_class_mappings over the classes of one category
RECURSIVE build_category(_, _, _)
build_category(mappings, classes, threat_level) ==
    IF classes = << >> THEN mappings
    ELSE build_category(<<Append(mappings[1], Head(classes)),
                          Put(mappings[2], Head(classes), threat_level)>>,
                        Tail(classes), threat_level)

\* the outer loop of build_class_mappings over the categories
RECURSIVE build_categories(_, _)
build_categories(mappings, categories) ==
    IF categories = << >> THEN mappings
    ELSE build_categories(build_category(mappings, Head(categories).classes,
                                         Head(categories).threat_level),
                          Tail(categories))

\* build_class_mappings(): <<all_classes, class_to_threat_level>>
build_class_mappings == build_categories(<< << >>, << >> >>, THREAT_CATEGORIES)

\* a lookup that gives every class of the table the first category
threats_get_threat_level_first(table, class_name) ==
    IF class_name \in DOMAIN table THEN THREAT_CATEGORIES[1].threat_level ELSE "NORMAL"

\* get_threat_level(class_name) of config/threats.py on a table:
\* CLASS_TO_THREAT_LEVEL.get(class_name, "NORMAL")
threats_get_threat_level(table, class_name) ==
    IF class_name \in DOMAIN table THEN table[class_name] ELSE "NORMAL"

\* add_custom_threat_class that overwrites the tier of a class it knows
add_custom_threat_class_overwrite(mappings, class_name, threat_level) ==
    <<IF class_name \notin Elements(mappings[1])
        THEN Append(mappings[1], class_name) ELSE mappings[1],
      Put(mappings[2], class_name, threat_level)>>

\* add_custom_threat_class(class_name, threat_level) on
\* mappings = <<ALL_CLASSES, CLASS_TO_THREAT_LEVEL>>
add_custom_threat_class(mappings, class_name, threat_level) ==
    IF class_name \notin Elements(mappings[1])
      THEN <<Append(mappings[1], class_name), Put(mappings[2], class_name, threat_level)>>
      ELSE mappings

\* threat_level: str = "MEDIUM_THREAT"
DEFAULT_CUSTOM_THREAT_LEVEL == "MEDIUM_THREAT"

\* the detector's _calculate_suspicious_indicators with the first test
\* relaxed to every confident detection
detector_calculate_suspicious_indicators_any(label, confidence, threat_level) ==
    IF confidence > 70
      THEN <<"high_confidence_weapon_detection">>
    ELSE IF threat_level = "MEDIUM_THREAT" /\ confidence > 50
      THEN <<"suspicious_object_detected">>
    ELSE IF threat_level = "HIGH_THREAT" /\ confidence < 50
      THEN <<"uncertain_threat_requires_validation">>
    ELSE << >>

\* _calculate_suspicious_indicators of the YOLOE C4ISR detector: if / elif / elif
detector_calculate_suspicious_indicators(label, confidence, threat_level) ==
    IF threat_level = "HIGH_THREAT" /\ confidence > 70
      THEN <<"high_confidence_weapon_detection">>
    ELSE IF threat_level = "MEDIUM_THREAT" /\ confidence > 50
      THEN <<"suspicious_object_detected">>
    ELSE IF threat_level = "HIGH_THREAT" /\ confidence < 50
      THEN <<"uncertain_threat_requires_validation">>
    ELSE << >>

\* ------------------------------------------- specification: threat table
\* The module config/threats.py after import: classes are looked up and
\* custom classes are registered, in any order; every lookup also computes
\* the suspicious indicators of a detection of that class, with the
\* tracking store's function and with the detector's.

\* labels of every category, labels of no category, labels given as custom threats
ThreatLabels == {"weapon", "knife", "backpack", "person", "bench", "drone", "crowbar", "umbrella"}
CustomThreats == {"drone", "crowbar", "knife", "person"}
\* confidences in hundredths, on and around the thresholds
ThreatConfidences == {0, 49, 50, 51, 70, 71, 100}

InitThreats ==
    /\ ALL_CLASSES = build_class_mappings[1]
    /\ CLASS_TO_THREAT_LEVEL = build_class_mappings[2]
    /\ last_threat = NoThreatCall

\* get_threat_level(class_name), then the indicators of a detection
\* of that class with the given confidence
LookupThreat ==
    \E class_name \in ThreatLabels, confidence \in ThreatConfidences :
        LET threat_level == threats_get_threat_level(CLASS_TO_THREAT_LEVEL, class_name)
        IN  /\ last_threat' =
                 [op |-> "lookup", class_name |-> class_name, threat_level |-> threat_level,
                  confidence |-> confidence,
                  indicators |->
                      calculate_suspicious_indicators(class_name, confidence, threat_level),
                  detector_indicators |->
                      detector_calculate_suspicious_indicators(class_name, confidence,
                                                               threat_level)]
            /\ UNCHANGED <<ALL_CLASSES, CLASS_TO_THREAT_LEVEL>>
            /\ UNCHANGED <<reconVars, reconObs, storeVars, storeObs, loopVars, commVars,
                           threadVars, detectorVars, encoderVars>>

\* one call add_custom_threat_class(class_name, threat_level)
AddCustomThreatClass(class_name, threat_level) ==
    LET mappings == add_custom_threat_class(<<ALL_CLASSES, CLASS_TO_THREAT_LEVEL>>,
                                            class_name, threat_level)
    IN  /\ ALL_CLASSES' = mappings[1]
        /\ CLASS_TO_THREAT_LEVEL' = mappings[2]
        /\ last_threat' = [op |-> "register", class_name |-> class_name,
                           threat_level |-> threat_level, confidence |-> 0,
                           indicators |-> << >>, detector_indicators |-> << >>]
        /\ UNCHANGED <<reconVars, reconObs, storeVars, storeObs, loopVars, commVars,
                       threadVars, detectorVars, encoderVars>>

\* add_custom_threat_class called with a tier
RegisterCustomLabel ==
    \E class_name \in CustomThreats, threat_level \in ThreatLevels :
        AddCustomThreatClass(class_name, threat_level)

\* _setup_threat_classes: one of args.custom_threats is added as a medium threat
SetupThreatClasses ==
    \E threat_class \in CustomThreats :
        AddCustomThreatClass(threat_class, DEFAULT_CUSTOM_THREAT_LEVEL)

InitT == InitRecon /\ InitReconObs /\ InitStore /\ InitStoreObs /\ InitNoLoop
          /\ InitThreats /\ InitNoThreads /\ InitNoDetector /\ InitNoEncoder
NextT == LookupThreat \/ RegisterCustomLabel \/ SetupThreatClasses
SpecThreats == InitT /\ [][NextT]_vars

\* ------------------------------------------------ threat table properties

\* the classes listed in THREAT_CATEGORIES
BuiltinClasses ==
    UNION {Elements(THREAT_CATEGORIES[i].classes) : i \in DOMAIN THREAT_CATEGORIES}

\* C21 (threat classification): a lookup returns what the current table
\* says: a label listed in a category of THREAT_CATEGORIES classifies to that
\* category ("weapon" -> HIGH_THREAT, "person" -> LOW_THREAT), whatever has
\* been registered in between, and a label that is in no category and was
\* never registered (so is not in the class list) classifies to NORMAL.
C21_Classification ==
    last_threat.op = "lookup" =>
        /\ \A i \in DOMAIN THREAT_CATEGORIES :
               last_threat.class_name \in Elements(THREAT_CATEGORIES[i].classes)
                   => last_threat.threat_level = THREAT_CATEGORIES[i].threat_level
        /\ last_threat.class_name \notin BuiltinClasses \cup Elements(ALL_CLASSES)
               => last_threat.threat_level = "NORMAL"
        /\ last_threat.class_name \in DOMAIN CLASS_TO_THREAT_LEVEL
               => last_threat.threat_level = CLASS_TO_THREAT_LEVEL[last_threat.class_name]
        /\ last_threat.class_name = "weapon" => last_threat.threat_level = "HIGH_THREAT"
        /\ last_threat.class_name = "person" => last_threat.threat_level = "LOW_THREAT"

\* "person" is looked up after custom classes were registered, and so is a
\* label nobody registered
C21_Witness ==
    /\ last_threat.op = "lookup"
    /\ last_threat.class_name = "person"
    /\ last_threat.threat_level = "LOW_THREAT"
    /\ {"drone", "crowbar"} \subseteq Elements(ALL_CLASSES)
    /\ "umbrella" \notin DOMAIN CLASS_TO_THREAT_LEVEL

\* C22 (registration is add-if-absent and idempotent): a call
\* add_custom_threat_class(c, t) for a class that is not in the table appends
\* c to the class list and makes it classify to t; a call for a class that
\* is already there, built in or registered before, with the same or another
\* tier, leaves the class list and the table as they were; so the same call
\* made again on the result changes nothing.
C22_StepAddIfAbsent ==
    last_threat'.op = "register" =>
        LET class_name == last_threat'.class_name
            threat_level == last_threat'.threat_level
            after == <<ALL_CLASSES', CLASS_TO_THREAT_LEVEL'>>
        IN  /\ class_name \notin Elements(ALL_CLASSES)
                 => /\ ALL_CLASSES' = Append(ALL_CLASSES, class_name)
                    /\ threats_get_threat_level(CLASS_TO_THREAT_LEVEL', class_name)
                           = threat_level
                    /\ \A other \in DOMAIN CLASS_TO_THREAT_LEVEL :
                           CLASS_TO_THREAT_LEVEL'[other] = CLASS_TO_THREAT_LEVEL[other]
            /\ class_name \in Elements(ALL_CLASSES)
                 => UNCHANGED <<ALL_CLASSES, CLASS_TO_THREAT_LEVEL>>
            /\ add_custom_threat_class(after, class_name, threat_level) = after
            /\ Elements(ALL_CLASSES') = DOMAIN CLASS_TO_THREAT_LEVEL'

C22_AddIfAbsent == [][C22_StepAddIfAbsent]_vars

\* a custom class, a medium threat since its first registration, is
\* registered again as a high threat and stays a medium threat
C22_Witness ==
    /\ last_threat.op = "register"
    /\ last_threat.class_name = "drone"
    /\ last_threat.threat_level = "HIGH_THREAT"
    /\ "drone" \in DOMAIN CLASS_TO_THREAT_LEVEL
    /\ CLASS_TO_THREAT_LEVEL["drone"] = DEFAULT_CUSTOM_THREAT_LEVEL
    /\ CLASS_TO_THREAT_LEVEL["knife"] = "HIGH_THREAT"

\* the rule table of the suspicious indicators
C23_RuleTable(confidence, threat_level) ==
    IF threat_level = "HIGH_THREAT" /\ confidence > 70
      THEN {"high_confidence_weapon_detection"}
    ELSE IF threat_level = "MEDIUM_THREAT" /\ confidence > 50
      THEN {"suspicious_object_detected"}
    ELSE IF threat_level = "HIGH_THREAT" /\ confidence < 50
      THEN {"uncertain_threat_requires_validation"}
    ELSE {}

\* C23 (suspicious indicators): for every confidence and tier the tracking
\* store's _calculate_suspicious_indicators returns the indicators of the
\* rule table (high threat above 0.7, medium threat above 0.5, high threat
\* below 0.5, nothing otherwise), never two of them, and the detector's
\* version (an elif chain) returns the same list.
C23_Indicators ==
    last_threat.op = "lookup" =>
        /\ Elements(last_threat.indicators)
               = C23_RuleTable(last_threat.confidence, last_threat.threat_level)
        /\ Len(last_threat.indicators) <= 1
        /\ last_threat.detector_indicators = last_threat.indicators

\* a confident high threat, which the first rule alone answers
C23_Witness ==
    /\ last_threat.op = "lookup"
    /\ last_threat.threat_level = "HIGH_THREAT"
    /\ last_threat.confidence > 70
    /\ last_threat.indicators = <<"high_confidence_weapon_detection">>
    /\ last_threat.detector_indicators = <<"high_confidence_weapon_detection">>

\* --------------------------- detection services: process_frame per back-end

\* ModelConfig.name of the back-ends without tracking of their own
RTDETR == "rtdetr-object-detection"
SAM2 == "sam-segmentation"
MOONDREAM == "moondream-object-detection"

\* if area < 100: continue
MIN_SEGMENT_AREA == 100

\* the floor test with the floor itself skipped too
skip_small_segment_inclusive(area) == area <= MIN_SEGMENT_AREA

\* area < 100
skip_small_segment(area) == area < MIN_SEGMENT_AREA

\* format_detection_payload(...), the fields that tell detections apart
detection_payload(track_id, native_id, area) ==
    [track_id |-> track_id, native_id |-> native_id, area |-> area]

\* get_or_create_cuid and detections.append(detection) for one raw detection
ReconcileDetection(native_id, area) ==
    LET key == MakeKey(self_model_type, native_id)
        map == get_or_create_cuid_map(native_id, self_model_type)
    IN  /\ id_mapping' = map
        /\ cuid_count' = IF key \notin DOMAIN id_mapping THEN cuid_count + 1 ELSE cuid_count
        /\ issued' = Append(issued, map[key])
        /\ detections' = Append(detections, detection_payload(map[key], native_id, area))

\* ------------------------------------- specification: a detection service
\* One session of a back-end without tracking of its own: the caller hands
\* process_frame one frame after the other, each with its frame index, and
\* process_frame reconciles the raw detections of the frame one by one.

\* frame indices go up to MaxFrameIndex; the caller may skip indices
MaxFrameIndex == 11
FrameIndices == {1, 2, MaxFrameIndex - 1, MaxFrameIndex}
\* a frame has at most MaxRawDetections raw detections
MaxRawDetections == 2

\* mask areas around the floor; a box detection has no mask (area 0)
MaskAreas == {MIN_SEGMENT_AREA - 1, MIN_SEGMENT_AREA, MIN_SEGMENT_AREA + 1}
NoMask == 0

RawDetections(backend) ==
    UNION {[1..n -> IF backend = SAM2 THEN MaskAreas ELSE {NoMask}] : n \in 0..MaxRawDetections}

InitDetector ==
    /\ self_model_type \in {RTDETR, SAM2, MOONDREAM}
    /\ next_idx = 0
    /\ detections = << >>
    /\ returned = NothingReturned
    /\ issued = << >>

InitDetectorLoop ==
    /\ pc = "idle"
    /\ frame_count = 0
    /\ frame_timestamp = 0
    /\ pending = << >>
    /\ current_track_ids = {}
    /\ total_kv_updates = 0
    /\ args_min_frames = 0
    /\ js = FALSE
    /\ kv = FALSE
    /\ published = << >>
    /\ cleanup_task = "none"
    /\ interrupted_at = NotInterrupted

\* the caller: the next frame, with a frame index above the last one, is
\* handed to process_frame, whose model returns the raw detections
DetectorNextFrame ==
    /\ pc = "idle"
    /\ \E index \in {i \in FrameIndices : i > frame_count} : frame_count' = index
    /\ \E raw \in RawDetections(self_model_type) : pending' = raw
    /\ next_idx' = 0
    /\ detections' = << >>
    /\ pc' = "loop"
    /\ UNCHANGED <<self_model_type, returned, issued, frame_timestamp, current_track_ids,
                   total_kv_updates>>
    /\ UNCHANGED <<reconVars, reconObs, storeVars, storeObs, commVars,
                   threatVars, threadVars, encoderVars>>

\* RT-DETR: one turn of for idx, (box, conf, cls_id) in enumerate(...)
RtdetrDetection ==
    /\ pc = "loop"
    /\ self_model_type = RTDETR
    /\ next_idx < Len(pending)
    /\ ReconcileDetection(make_native_id(frame_count, next_idx), pending[next_idx + 1])
    /\ next_idx' = next_idx + 1
    /\ UNCHANGED <<self_model_type, returned, loopVars>>
    /\ UNCHANGED <<reconObs, storeVars, storeObs, commVars,
                   threatVars, threadVars, encoderVars>>

\* Moondream: one detected object; its index is len(detections)
MoondreamDetection ==
    /\ pc = "loop"
    /\ self_model_type = MOONDREAM
    /\ next_idx < Len(pending)
    /\ ReconcileDetection(make_native_id(frame_count, Len(detections)), pending[next_idx + 1])
    /\ next_idx' = next_idx + 1
    /\ UNCHANGED <<self_model_type, returned, loopVars>>
    /\ UNCHANGED <<reconObs, storeVars, storeObs, commVars,
                   threatVars, threadVars, encoderVars>>

\* SAM2: one turn of for idx, (mask, box, conf) in enumerate(...): a small
\* segment is skipped; any other is reconciled and appended, and then the
\* label text reads segment_id, a name process_frame never binds, so the
\* call ends with a NameError
Sam2Segment ==
    /\ pc = "loop"
    /\ self_model_type = SAM2
    /\ next_idx < Len(pending)
    /\ LET area == pending[next_idx + 1]
       IN  IF skip_small_segment(area)
             THEN /\ next_idx' = next_idx + 1
                  /\ UNCHANGED <<reconVars, issued, detections, returned, pc>>
             ELSE /\ ReconcileDetection(make_native_id(frame_count, next_idx), area)
                  /\ returned' = [outcome |-> "NameError", detections |-> << >>]
                  /\ pc' = "raised"
                  /\ UNCHANGED next_idx
    /\ UNCHANGED <<self_model_type, frame_count, frame_timestamp, pending,
                   current_track_ids, total_kv_updates>>
    /\ UNCHANGED <<reconObs, storeVars, storeObs, commVars,
                   threatVars, threadVars, encoderVars>>

\* return detections, frame
DetectorReturn ==
    /\ pc = "loop"
    /\ next_idx = Len(pending)
    /\ returned' = [outcome |-> "returned", detections |-> detections]
    /\ pc' = "idle"
    /\ UNCHANGED <<self_model_type, next_idx, detections, issued, frame_count,
                   frame_timestamp, pending, current_track_ids, total_kv_updates>>
    /\ UNCHANGED <<reconVars, reconObs, storeVars, storeObs, commVars,
                   threatVars, threadVars, encoderVars>>

InitD == InitRecon /\ InitReconObs /\ InitStore /\ InitStoreObs /\ InitDetectorLoop
          /\ InitNoThreats /\ InitNoThreads /\ InitDetector /\ InitNoEncoder
NextD == DetectorNextFrame \/ RtdetrDetection \/ MoondreamDetection \/ Sam2Segment
           \/ DetectorReturn
SpecDetector == InitD /\ [][NextD]_vars

\* ------------------------------ SegmentationState of demos/detect_sam3.py
\* self.segmented_objects, self.total_unique_segments and
\* self.active_segment_ids are held in tracked_objects,
\* total_unique_objects and active_track_ids.

\* the record created for a segment seen for the first time
new_segment(segment_id, bbox, area, confidence, ts) ==
    [segment_id |-> segment_id,
     first_seen |-> ts,
     last_seen |-> ts,
     frame_count |-> 1,
     total_confidence |-> confidence,
     avg_confidence |-> Ratio(confidence, 1),
     area |-> area,
     bbox |-> bbox,
     is_active |-> TRUE]

\* the record of a known segment after one more sighting
updated_segment(obj, bbox, area, confidence, ts) ==
    [obj EXCEPT
       !.last_seen = ts,
       !.frame_count = obj.frame_count + 1,
       !.total_confidence = obj.total_confidence + confidence,
       !.avg_confidence = Ratio(obj.total_confidence + confidence, obj.frame_count + 1),
       !.area = area,
       !.bbox = bbox,
       !.is_active = TRUE]

\* update_segment that leaves the active set alone
update_segment_not_activated(segment_id, bbox, area, confidence, ts) ==
    /\ tracked_objects' =
         IF segment_id \notin DOMAIN tracked_objects
           THEN Put(tracked_objects, segment_id,
                    new_segment(segment_id, bbox, area, confidence, ts))
           ELSE Put(tracked_objects, segment_id,
                    updated_segment(tracked_objects[segment_id], bbox, area, confidence, ts))
    /\ total_unique_objects' =
         IF segment_id \notin DOMAIN tracked_objects
           THEN total_unique_objects + 1 ELSE total_unique_objects
    /\ UNCHANGED <<active_track_ids, total_frames_processed, threat_alerts>>

\* SegmentationState.update_segment
update_segment(segment_id, bbox, area, confidence, ts) ==
    /\ tracked_objects' =
         IF segment_id \notin DOMAIN tracked_objects
           THEN Put(tracked_objects, segment_id,
                    new_segment(segment_id, bbox, area, confidence, ts))
           ELSE Put(tracked_objects, segment_id,
                    updated_segment(tracked_objects[segment_id], bbox, area, confidence, ts))
    /\ total_unique_objects' =
         IF segment_id \notin DOMAIN tracked_objects
           THEN total_unique_objects + 1 ELSE total_unique_objects
    /\ active_track_ids' = active_track_ids \cup {segment_id}
    /\ UNCHANGED <<total_frames_processed, threat_alerts>>

\* the KV write of publish_segmentation_state
segmentation_state_snapshot(outcome) ==
    IF outcome = "skipped"
      THEN [kind |-> "segmentation_state", frame |-> frame_count, outcome |-> outcome]
      ELSE [kind |-> "segmentation_state", frame |-> frame_count, outcome |-> outcome,
            segmented_objects |-> get_persistent_objects(PUBLISH_MIN_FRAMES)]

\* ------------------------ specification: frame loop of demos/detect_sam3.py
\* main(): read a frame, update_segment for every mask that is not too
\* small, then mark_inactive_segments, the KV publish gate and the display.

\* at most MaxSegFrames frames are read
MaxSegFrames == 3

SegConfs == {90}

InitSegLoop ==
    /\ pc = "read"
    /\ frame_count = 0
    /\ frame_timestamp = 0
    /\ pending = << >>
    /\ current_track_ids = {}
    /\ total_kv_updates = 0
    /\ args_min_frames = MIN_FRAMES
    /\ js = TRUE
    /\ kv = TRUE
    /\ published = <<bootsequence_event("ok")>>
    /\ cleanup_task = "none"
    /\ interrupted_at = NotInterrupted

InitSegDetector ==
    /\ self_model_type = SAM2
    /\ next_idx = 0
    /\ detections = << >>
    /\ returned = NothingReturned
    /\ issued = << >>

\* ret, frame = cap.read() succeeds; model.predict returns the masks
SegReadFrame ==
    /\ pc = "read"
    /\ frame_count < MaxSegFrames
    /\ \E raw \in RawDetections(SAM2) : pending' = raw
    /\ frame_timestamp' = clock
    /\ clock' = clock + 1
    /\ frame_count' = frame_count + 1
    /\ total_frames_processed' = frame_count + 1
    /\ current_track_ids' = {}
    /\ next_idx' = 0
    /\ pc' = "segments"
    /\ UNCHANGED <<tracked_objects, total_unique_objects, active_track_ids, threat_alerts,
                   inputs, last_call, total_kv_updates, reconVars, reconObs, commVars>>
    /\ UNCHANGED <<self_model_type, detections, returned, issued,
                   threatVars, threadVars, encoderVars>>

\* one turn of for idx, (mask, box, conf) in enumerate(...): segment_id = idx;
\* a small segment is skipped, any other goes to update_segment
SegSegment ==
    /\ pc = "segments"
    /\ next_idx < Len(pending)
    /\ LET area == pending[next_idx + 1]
       IN  IF skip_small_segment(area)
             THEN UNCHANGED <<storeVars, inputs, last_call, current_track_ids>>
             ELSE \E confidence \in SegConfs :
                    /\ update_segment(next_idx, "b0", area, confidence, frame_timestamp)
                    /\ Observe(next_idx, "segment", confidence, "b0", frame_timestamp, "none")
                    /\ current_track_ids' = current_track_ids \cup {next_idx}
    /\ next_idx' = next_idx + 1
    /\ UNCHANGED <<clock, pc, frame_count, frame_timestamp, pending, total_kv_updates,
                   reconVars, reconObs, commVars>>
    /\ UNCHANGED <<self_model_type, detections, returned, issued,
                   threatVars, threadVars, encoderVars>>

\* segmentation_state.mark_inactive_segments(current_segment_ids)
SegMarkStep ==
    /\ pc = "segments"
    /\ next_idx = Len(pending)
    /\ MarkInactive(current_track_ids)
    /\ pc' = "publish"
    /\ UNCHANGED <<extVars, frame_count, frame_timestamp, pending, current_track_ids,
                   total_kv_updates, reconVars, reconObs, commVars>>

\* the KV publish gate on get_persistent_segments(min_frames=args.min_frames)
SegPublishStep ==
    /\ pc = "publish"
    /\ IF get_persistent_objects(args_min_frames) # << >>
         THEN \E outcome \in PublishOutcomes(kv) :
                /\ published' = Append(published, segmentation_state_snapshot(outcome))
                /\ total_kv_updates' = total_kv_updates + 1
                /\ pc' = after_publish(outcome, "display")
         ELSE /\ pc' = "display"
              /\ UNCHANGED <<published, total_kv_updates>>
    /\ UNCHANGED <<extVars, storeVars, storeObs, frame_count, frame_timestamp, pending,
                   current_track_ids, reconVars, reconObs,
                   args_min_frames, js, kv, cleanup_task, interrupted_at>>

InitG == InitRecon /\ InitReconObs /\ InitStore /\ InitStoreObs /\ InitSegLoop
          /\ InitNoThreats /\ InitNoThreads /\ InitSegDetector /\ InitNoEncoder
NextG == SegReadFrame \/ ReadFails \/ SegSegment \/ SegMarkStep \/ SegPublishStep
           \/ DisplayStep \/ Finally
SpecSegmentation == InitG /\ [][NextG]_vars

\* -------------------------------------------- detection service properties

\* a SAM2 turn is about to look at a mask below the floor
C24_SmallSegmentNext ==
    /\ pc = "loop"
    /\ self_model_type = SAM2
    /\ next_idx < Len(pending)
    /\ pending[next_idx + 1] < MIN_SEGMENT_AREA

\* a mask below the floor is dropped before identity reconciliation: the
\* turn leaves the reconciler map, every tracked record and the detection
\* list as they were
C24_StepDropped ==
    C24_SmallSegmentNext => UNCHANGED <<id_mapping, cuid_count, tracked_objects, detections>>

\* the detections the caller of process_frame got for the frame
C24_Emitted == {d.native_id : d \in Elements(returned.detections)}

\* when process_frame is over, the detection list of the frame holds the
\* masks of area 100 or more, each reconciled, and no other
C24_FrameList ==
    (self_model_type = SAM2 /\ frame_count > 0 /\ pc \in {"idle", "raised"}) =>
        \A i \in DOMAIN pending :
            LET native_id == make_native_id(frame_count, i - 1)
            IN  IF pending[i] < MIN_SEGMENT_AREA
                  THEN /\ native_id \notin C24_Emitted
                       /\ MakeKey(SAM2, native_id) \notin DOMAIN id_mapping
                  ELSE /\ native_id \in C24_Emitted
                       /\ MakeKey(SAM2, native_id) \in DOMAIN id_mapping

\* C24 (area floor): a mask detection whose pixel area is below the floor
\* of 100 is dropped before identity reconciliation (the reconciler map and
\* every track's frame count stay as they were and it is not in the frame's
\* detection list), and a detection with area 100 or more is reconciled and
\* emitted.
C24_AreaFloor == [](C24_FrameList) /\ [][C24_StepDropped]_vars

\* the part of C24 about the masks below the floor, in the SAM2 service
C24_DroppedBelowFloor ==
    /\ [][C24_StepDropped]_vars
    /\ [](self_model_type = SAM2 =>
             \A d \in Elements(detections) : d.area >= MIN_SEGMENT_AREA)

\* the loop of demos/detect_sam3.py, which has no reconciler: a turn for a
\* mask below the floor leaves the segmentation state and the segment IDs
\* of the frame as they were, a turn for any other mask updates the record
\* of its segment and puts it among the segment IDs of the frame
C24_StepDemo ==
    (pc = "segments" /\ next_idx < Len(pending) /\ next_idx' = next_idx + 1) =>
        IF pending[next_idx + 1] < MIN_SEGMENT_AREA
          THEN UNCHANGED <<storeVars, current_track_ids, id_mapping>>
          ELSE /\ next_idx \in current_track_ids'
               /\ tracked_objects'[next_idx].area = pending[next_idx + 1]
               /\ tracked_objects'[next_idx].last_seen = frame_timestamp

C24_DemoAreaFloor == [][C24_StepDemo]_vars

\* the native IDs of the detections of the frame in hand
C25_FrameNativeIds == {d.native_id : d \in Elements(detections)}

\* C25 (fresh identity per detection): with native IDs made of the frame
\* index and the position in the frame, and frame indices that only go up,
\* no two detections of a session, of one frame or of two, have the same
\* native ID: every detection added an entry to the reconciler map and got
\* a CUID that no earlier detection got.
C25_FreshIdentity ==
    /\ \A i, j \in DOMAIN issued : i # j => issued[i] # issued[j]
    /\ Cardinality(DOMAIN id_mapping) = Len(issued)
    /\ Cardinality(C25_FrameNativeIds) = Len(detections)
    /\ \A d \in Elements(detections) :
           id_mapping[MakeKey(self_model_type, d.native_id)] = d.track_id

\* two frames of two detections each, the second with a two-digit index
C25_Witness ==
    /\ Len(issued) = 4
    /\ Len(detections) = 2
    /\ frame_count >= 10
    /\ make_native_id(frame_count, 1) \in C25_FrameNativeIds

\* ------------------- specification: threads inside get_or_create_cuid
\* Threads of one process share a TrackingIDService and each calls
\* get_or_create_cuid once. The method takes no lock, so the interpreter may
\* switch threads between any two of its steps: the membership test, the
\* call of the generator, the store into the dictionary and the final read.

\* the threads are 1..MaxThreads
MaxThreads == 2
Threads == 1..MaxThreads

InitThreads ==
    /\ thread_pc = [t \in Threads |-> "start"]
    /\ thread_key = [t \in Threads |-> NoKey]
    /\ thread_value = [t \in Threads |-> 0]
    /\ thread_ret = [t \in Threads |-> 0]

\* a lock around the method: the test is made only while no other thread
\* is between its own test and its return
may_test_locked(t) ==
    \A u \in Threads \ {t} : thread_pc[u] \in {"start", "test", "done"}

\* no lock is taken: a thread may make the membership test at any time
may_test(t) == TRUE

\* key = (model_type, native_id)
ThreadCall(t) ==
    /\ thread_pc[t] = "start"
    /\ \E m \in ModelTypes, n \in NativeIds : thread_key' = [thread_key EXCEPT ![t] = MakeKey(m, n)]
    /\ thread_pc' = [thread_pc EXCEPT ![t] = "test"]
    /\ UNCHANGED <<thread_value, thread_ret, reconVars>>
    /\ UNCHANGED <<reconObs, storeVars, storeObs, loopVars, commVars,
                   threatVars, detectorVars, encoderVars>>

\* if key not in self.id_mapping
ThreadTest(t) ==
    /\ thread_pc[t] = "test"
    /\ may_test(t)
    /\ thread_pc' = [thread_pc EXCEPT
                       ![t] = IF thread_key[t] \notin DOMAIN id_mapping
                                THEN "generate" ELSE "return"]
    /\ UNCHANGED <<thread_key, thread_value, thread_ret, reconVars>>
    /\ UNCHANGED <<reconObs, storeVars, storeObs, loopVars, commVars,
                   threatVars, detectorVars, encoderVars>>

\* self.cuid_generator(): the right-hand side of the assignment
ThreadGenerate(t) ==
    /\ thread_pc[t] = "generate"
    /\ thread_value' = [thread_value EXCEPT ![t] = cuid_generator]
    /\ cuid_count' = cuid_count + 1
    /\ thread_pc' = [thread_pc EXCEPT ![t] = "store"]
    /\ UNCHANGED <<thread_key, thread_ret, id_mapping>>
    /\ UNCHANGED <<reconObs, storeVars, storeObs, loopVars, commVars,
                   threatVars, detectorVars, encoderVars>>

\* self.id_mapping[key] = ...
ThreadStore(t) ==
    /\ thread_pc[t] = "store"
    /\ id_mapping' = Put(id_mapping, thread_key[t], thread_value[t])
    /\ thread_pc' = [thread_pc EXCEPT ![t] = "return"]
    /\ UNCHANGED <<thread_key, thread_value, thread_ret, cuid_count>>
    /\ UNCHANGED <<reconObs, storeVars, storeObs, loopVars, commVars,
                   threatVars, detectorVars, encoderVars>>

\* return self.id_mapping[key]
ThreadReturn(t) ==
    /\ thread_pc[t] = "return"
    /\ thread_ret' = [thread_ret EXCEPT ![t] = id_mapping[thread_key[t]]]
    /\ thread_pc' = [thread_pc EXCEPT ![t] = "done"]
    /\ UNCHANGED <<thread_key, thread_value, reconVars>>
    /\ UNCHANGED <<reconObs, storeVars, storeObs, loopVars, commVars,
                   threatVars, detectorVars, encoderVars>>

ThreadsCall == \E t \in Threads : ThreadCall(t)
ThreadsTest == \E t \in Threads : ThreadTest(t)
ThreadsGenerate == \E t \in Threads : ThreadGenerate(t)
ThreadsStore == \E t \in Threads : ThreadStore(t)
ThreadsReturn == \E t \in Threads : ThreadReturn(t)

InitTh == InitRecon /\ InitReconObs /\ InitStore /\ InitStoreObs /\ InitNoLoop
           /\ InitNoThreats /\ InitThreads /\ InitNoDetector /\ InitNoEncoder
NextTh == ThreadsCall \/ ThreadsTest \/ ThreadsGenerate \/ ThreadsStore \/ ThreadsReturn
SpecThreads == InitTh /\ [][NextTh]_vars

\* ------------------------------------------------------ thread properties

\* C26 (thread safety of the reconciler): when two threads have called
\* get_or_create_cuid with the same (model_type, native_id) key, whatever
\* the interleaving of their steps, both calls return the same CUID and that
\* CUID is the one stored in the map afterwards.
C26_ThreadSafe ==
    \A t, u \in Threads :
        (thread_pc[t] = "done" /\ thread_pc[u] = "done" /\ thread_key[t] = thread_key[u])
            => /\ thread_ret[t] = thread_ret[u]
               /\ thread_ret[t] = id_mapping[thread_key[t]]

\* --------------------------------- tracking store properties: consistency

\* C27 (active set and flags agree): in every reachable state of the
\* tracking store, after any sequence of update_object and
\* mark_inactive_objects calls, the active-ID set is exactly the set of
\* track IDs whose record has is_active set, and it holds known track IDs
\* only.
C27_ActiveSetAgrees ==
    /\ \A t \in DOMAIN tracked_objects :
           (t \in active_track_ids) <=> tracked_objects[t].is_active
    /\ active_track_ids \subseteq DOMAIN tracked_objects

\* after updates and a mark_inactive_objects call one track is active and
\* in the set, another is inactive and out of it
C27_Witness ==
    /\ last_call.op = "mark"
    /\ \E a, b \in DOMAIN tracked_objects :
         /\ tracked_objects[a].is_active /\ a \in active_track_ids
         /\ ~tracked_objects[b].is_active /\ b \notin active_track_ids
         /\ tracked_objects[b].frame_count = 2

\* the fields of a record that mark_inactive_objects has no business with
C28_Kept(obj) ==
    <<obj.frame_count, obj.total_confidence, obj.avg_confidence, obj.max_confidence,
      obj.label, obj.first_seen, obj.last_seen, obj.bbox_history>>

\* update_object(t, ...) leaves the record of every other track as it was
\* and keeps first_seen of t, which is the time of its first sighting
C28_StepUpdate ==
    last_call'.op = "update" =>
        LET t == last_call'.track_id
        IN  /\ DOMAIN tracked_objects' = DOMAIN tracked_objects \cup {t}
            /\ \A other \in DOMAIN tracked_objects \ {t} :
                   tracked_objects'[other] = tracked_objects[other]
            /\ t \in DOMAIN tracked_objects
                   => tracked_objects'[t].first_seen = tracked_objects[t].first_seen
            /\ tracked_objects'[t].first_seen = inputs'[t][1].ts

\* mark_inactive_objects changes is_active flags and the active-ID set only
C28_StepMark ==
    last_call'.op = "mark" =>
        /\ DOMAIN tracked_objects' = DOMAIN tracked_objects
        /\ \A t \in DOMAIN tracked_objects :
               C28_Kept(tracked_objects'[t]) = C28_Kept(tracked_objects[t])
        /\ UNCHANGED <<total_unique_objects, threat_alerts>>

\* C28 (frame conditions of the tracking store): update_object(t, ...)
\* leaves the record of every track other than t unchanged and never changes
\* first_seen of t once it is set; mark_inactive_objects changes only
\* is_active flags and the active-ID set: frame_count, total_confidence,
\* avg_confidence, max_confidence, label, first_seen, last_seen and
\* bbox_history of every record stay as they were, and so do the
\* unique-object count and the alert list.
C28_FrameConditions == [][C28_StepUpdate /\ C28_StepMark]_vars

\* a track seen three times while another track is known, and a
\* mark_inactive_objects call that made a track of two sightings inactive
C28_Witness ==
    /\ last_call.op = "mark"
    /\ threat_alerts # << >>
    /\ \E a, b \in DOMAIN tracked_objects :
         /\ a # b
         /\ ~tracked_objects[a].is_active
         /\ tracked_objects[a].frame_count = 2
         /\ tracked_objects[a].last_seen > tracked_objects[a].first_seen
         /\ tracked_objects[b].first_seen > tracked_objects[a].first_seen

\* --------------------------------- C4ISR session properties: fresh track IDs

\* the threat-intelligence snapshots written so far (kv.put attempts)
C29_Snapshots ==
    {published[i] : i \in {k \in DOMAIN published :
                             /\ published[k].kind = "threat_intelligence"
                             /\ published[k].outcome # "skipped"}}

\* every tracked record has frame_count 1
C29_OneFrameEach ==
    \A t \in DOMAIN tracked_objects :
        /\ tracked_objects[t].frame_count = 1
        /\ tracked_objects[t].first_seen = tracked_objects[t].last_seen

\* once mark_inactive_objects has run for the frame, the active records are
\* those of the frame in hand: a record is active in the frame that created
\* it and in no other
C29_ActiveInItsFrame ==
    pc \in {"publish", "display"} =>
        \A t \in DOMAIN tracked_objects :
            tracked_objects[t].is_active <=> tracked_objects[t].first_seen = frame_timestamp

\* the tracked_objects map of every snapshot is empty
C29_SnapshotsEmpty == \A e \in C29_Snapshots : e.tracked_objects = << >>

\* past the gate of a frame, a snapshot write has been attempted for the
\* frame exactly when some detection has occurred in the session
C29_AttemptedEveryFrame ==
    pc = "display" =>
        (tracked_objects # << >>
            <=> \E i \in DOMAIN published :
                    /\ published[i].kind = "threat_intelligence"
                    /\ published[i].frame = frame_count)

\* C29 (fresh track IDs in the C4ISR script): with the track ID of each
\* detection made of the frame number and the position in the frame, every
\* tracked record has frame_count 1 in every reachable state and is active
\* in exactly one frame; so the tracked_objects map of every
\* threat-intelligence snapshot, filtered with the fixed threshold 3, is
\* empty, although a snapshot write is attempted on every frame once any
\* detection has occurred (the gate uses --min-frames, default 1).
C29_FreshTracks ==
    /\ C29_OneFrameEach
    /\ C29_ActiveInItsFrame
    /\ C29_SnapshotsEmpty
    /\ C29_AttemptedEveryFrame

\* frame 2 has no detection, yet its snapshot was written, with an empty
\* object map, because frame 1 had detections
C29_Witness ==
    /\ pc = "display"
    /\ frame_count = 2
    /\ current_track_ids = {}
    /\ Cardinality(DOMAIN tracked_objects) = 2
    /\ \E e \in C29_Snapshots : e.frame = 2 /\ e.tracked_objects = << >>
    /\ \E e \in C29_Snapshots : e.frame = 1 /\ e.analytics.active_objects_count = 2

\* ------------------------------------------- H264Encoder: the output queue

\* queue.Queue(maxsize=60)
QUEUE_MAXSIZE == 60

\* a put that lets the queue grow past its size
put_nowait_unbounded(q, item) == [full |-> FALSE, queue |-> Append(q, item)]

\* Queue.put_nowait(item): queue.Full when maxsize items are queued
put_nowait(q, item) ==
    IF Len(q) >= QUEUE_MAXSIZE
      THEN [full |-> TRUE, queue |-> q]
      ELSE [full |-> FALSE, queue |-> Append(q, item)]

\* Queue.get_nowait(): queue.Empty when nothing is queued
get_nowait(q) ==
    IF q = << >>
      THEN [empty |-> TRUE, item |-> 0, queue |-> q]
      ELSE [empty |-> FALSE, item |-> Head(q), queue |-> Tail(q)]

\* ---------------------------------------- specification: H.264 encoder
\* The reader thread (_read_output) and the thread that calls encode_frame
\* share the output queue; every queue operation is atomic and the threads
\* may be switched between any two of them. The n-th chunk FFmpeg writes is
\* the token n.

\* FFmpeg writes at most MaxChunks chunks
MaxChunks == 62

InitEncoder ==
    /\ output_queue = << >>
    /\ reader_pc = "none"
    /\ chunk = 0
    /\ chunks_read = 0
    /\ encode_pc = "idle"
    /\ chunks = << >>
    /\ discarded = {}

\* encode_frame up to the loop that collects the output: the first call
\* starts FFmpeg and the reader thread; the frame is written to stdin
EncodeFrame ==
    /\ encode_pc = "idle"
    /\ reader_pc' = IF reader_pc = "none" THEN "read" ELSE reader_pc
    /\ chunks' = << >>
    /\ encode_pc' = "collect"
    /\ UNCHANGED <<output_queue, chunk, chunks_read, discarded>>
    /\ UNCHANGED <<reconVars, reconObs, storeVars, storeObs, loopVars, commVars,
                   threatVars, threadVars, detectorVars>>

\* chunks.append(self._output_queue.get_nowait()), or queue.Empty: break and
\* return what was collected
EncodeCollect ==
    /\ encode_pc = "collect"
    /\ LET got == get_nowait(output_queue)
       IN  IF got.empty
             THEN /\ encode_pc' = "idle"
                  /\ UNCHANGED <<output_queue, chunks>>
             ELSE /\ output_queue' = got.queue
                  /\ chunks' = Append(chunks, got.item)
                  /\ UNCHANGED encode_pc
    /\ UNCHANGED <<reader_pc, chunk, chunks_read, discarded>>
    /\ UNCHANGED <<reconVars, reconObs, storeVars, storeObs, loopVars, commVars,
                   threatVars, threadVars, detectorVars>>

\* chunk = self._process.stdout.read(chunk_size), a chunk is there
ReaderRead ==
    /\ reader_pc = "read"
    /\ chunks_read < MaxChunks
    /\ chunk' = chunks_read + 1
    /\ chunks_read' = chunks_read + 1
    /\ reader_pc' = "put"
    /\ UNCHANGED <<output_queue, encode_pc, chunks, discarded>>
    /\ UNCHANGED <<reconVars, reconObs, storeVars, storeObs, loopVars, commVars,
                   threatVars, threadVars, detectorVars>>

\* the read returns nothing and FFmpeg has ended: break
ReaderEnds ==
    /\ reader_pc = "read"
    /\ reader_pc' = "ended"
    /\ UNCHANGED <<output_queue, chunk, chunks_read, encode_pc, chunks, discarded>>
    /\ UNCHANGED <<reconVars, reconObs, storeVars, storeObs, loopVars, commVars,
                   threatVars, threadVars, detectorVars>>

\* self._output_queue.put_nowait(chunk); queue.Full leads to the handler
ReaderPut ==
    /\ reader_pc = "put"
    /\ LET put == put_nowait(output_queue, chunk)
       IN  IF put.full
             THEN /\ reader_pc' = "drop_oldest"
                  /\ UNCHANGED <<output_queue, chunk>>
             ELSE /\ output_queue' = put.queue
                  /\ chunk' = 0
                  /\ reader_pc' = "read"
    /\ UNCHANGED <<chunks_read, encode_pc, chunks, discarded>>
    /\ UNCHANGED <<reconVars, reconObs, storeVars, storeObs, loopVars, commVars,
                   threatVars, threadVars, detectorVars>>

\* except queue.Full: self._output_queue.get_nowait(); on queue.Empty the
\* handler passes and the chunk in hand is let go
ReaderDropOldest ==
    /\ reader_pc = "drop_oldest"
    /\ LET got == get_nowait(output_queue)
       IN  IF got.empty
             THEN /\ discarded' = discarded \cup {chunk}
                  /\ chunk' = 0
                  /\ reader_pc' = "read"
                  /\ UNCHANGED output_queue
             ELSE /\ output_queue' = got.queue
                  /\ reader_pc' = "put_again"
                  /\ UNCHANGED <<chunk, discarded>>
    /\ UNCHANGED <<chunks_read, encode_pc, chunks>>
    /\ UNCHANGED <<reconVars, reconObs, storeVars, storeObs, loopVars, commVars,
                   threatVars, threadVars, detectorVars>>

\* the second self._output_queue.put_nowait(chunk); a queue.Full here is
\* caught by except Exception: break
ReaderPutAgain ==
    /\ reader_pc = "put_again"
    /\ LET put == put_nowait(output_queue, chunk)
       IN  IF put.full
             THEN /\ discarded' = discarded \cup {chunk}
                  /\ reader_pc' = "ended"
                  /\ UNCHANGED output_queue
             ELSE /\ output_queue' = put.queue
                  /\ reader_pc' = "read"
                  /\ UNCHANGED discarded
    /\ chunk' = 0
    /\ UNCHANGED <<chunks_read, encode_pc, chunks>>
    /\ UNCHANGED <<reconVars, reconObs, storeVars, storeObs, loopVars, commVars,
                   threatVars, threadVars, detectorVars>>

InitE == InitRecon /\ InitReconObs /\ InitStore /\ InitStoreObs /\ InitNoLoop
          /\ InitNoThreats /\ InitNoThreads /\ InitNoDetector /\ InitEncoder
NextE == EncodeFrame \/ EncodeCollect \/ ReaderRead \/ ReaderEnds \/ ReaderPut
           \/ ReaderDropOldest \/ ReaderPutAgain
SpecEncoder == InitE /\ [][NextE]_vars

\* ----------------------------------------------------- encoder properties

\* C30 (output queue under concurrency): for every interleaving of the
\* reader thread with encode_frame draining the queue, the queue never holds
\* more than 60 chunks and every chunk read from the encoder is enqueued,
\* replacing the oldest queued chunk when the queue is full: a newly read
\* chunk is never itself discarded.
C30_OutputQueue ==
    /\ Len(output_queue) <= QUEUE_MAXSIZE
    /\ discarded = {}

\* the part of C30 about the size of the queue
C30_QueueBound == Len(output_queue) <= QUEUE_MAXSIZE

====
